---------------------------- MODULE Spec2Model ----------------------------
(***************************************************************************)
(* Model of src/src/gis-explorer.js: the GeoJSON upload pipeline           *)
(* (processGeoJSON, addGeoJSONToMap), the shapefile upload                 *)
(* (addShapefileToMap), the field statistics engine (analyzeFieldValues)   *)
(* and the classification panel (applyFieldClassification,                 *)
(* resetLayerRenderer, createMapLegend).                                   *)
(*                                                                         *)
(* JavaScript values are records tagged by the field t:                    *)
(*   [t |-> "null"], [t |-> "undefined"], [t |-> "number", ...],           *)
(*   [t |-> "string", ...], [t |-> "boolean", ...], [t |-> "object", ...], *)
(*   [t |-> "array", items |-> <<...>>].                                   *)
(* A thrown exception is the record [t |-> "throw", error |-> ...].        *)
(***************************************************************************)
EXTENDS Integers, Sequences, FiniteSets, TLC

VARIABLES
  file,            \* the uploaded file: its parsed content (input of processGeoJSON)
  uploadStatus,    \* className of #uploadStatus: "", "loading", "success", "error"
  displayMap,      \* layers added to the map, in order
  uploadedLayers,  \* the global uploadedLayers
  queried,         \* the query of analyzeFieldValues: the layer's features, the
                   \* field name, and whether queryFeatures has settled
  stats,           \* what analyzeFieldValues returned ("pending" before the call)
  currentClassificationLayer,
                   \* the global: the position of the layer in uploadedLayers,
                   \* 0 for null
  fieldSelect,     \* #fieldSelect: the values of its options behind the empty
                   \* one, and its value ("" when no field is selected)
  classificationPanel,
                   \* #classificationPanel: whether it carries the class hidden
  mapLegend,       \* #mapLegend: hidden, the field label of its title, its items
  applyBtn,        \* #applyClassification: whether it is disabled
  alerted,         \* the message of the alert() of the last step, "" without one
  currentHighlight,
                   \* the global: the highlight graphic, 0 for none
  viewGraphics,    \* view.graphics: the graphics on the view, in order
  clicks,          \* the click handlers that are at an await: their event and
                   \* what they hold
  clicked,         \* how many clicks the view has seen
  featurePanel,    \* #featurePanel: its classes hidden and show, and whose
                   \* attributes #featureContent lists (0 for none)
  timers,          \* the callbacks of setTimeout that have not run yet: how
                   \* many of each
  fieldInfo,       \* #fieldInfo: its style.display and what .stats-content shows
  fieldQueries,    \* the calls of analyzeFieldValues the change handler of
                   \* #fieldSelect awaits: the features of the layer and the field
  loadingOverlay,  \* #loadingOverlay: whether it carries the class hidden (its
                   \* class show, a transition, is not followed)
  processing       \* the files handleFileUpload is processing, behind its checks

\* the state of the classification panel and of the legend
panelVars == <<currentClassificationLayer, fieldSelect, classificationPanel,
               mapLegend, applyBtn, alerted>>

\* the highlight of the clicked feature and the feature panel
clickVars == <<currentHighlight, viewGraphics, clicks, clicked, featurePanel>>

\* what the upload of one file and the classification panel leave alone
\* the statistics shown below the field select
fieldInfoVars == <<fieldInfo, fieldQueries>>

\* the uploads on their way and the overlay they show
uploadingVars == <<loadingOverlay, processing>>

laterVars == <<clickVars, timers, fieldInfoVars, uploadingVars>>

vars == <<file, uploadStatus, displayMap, uploadedLayers, queried, stats,
          currentClassificationLayer, fieldSelect, classificationPanel,
          mapLegend, applyBtn, alerted, currentHighlight, viewGraphics,
          clicks, clicked, featurePanel, timers, fieldInfo, fieldQueries,
          loadingOverlay, processing>>

----------------------------------------------------------------------------
(* Bounds of the model *)

MaxFeatures == 2     \* features per collection when geometries vary
MaxParts    == 2     \* polygon parts of a multipolygon
MaxRings    == 3     \* rings of one polygon part
MaxRows     == 3     \* features per collection when properties vary
MaxLen      == 3     \* length of an arbitrary list of queried values
MaxRun      == 25    \* length of a run of distinct queried values
MaxIndex    == 10    \* largest integer whose decimal form is looked for among keys
MaxClicks   == 3     \* clicks on the view in one behaviour
MaxTimers   == 2     \* callbacks of one kind waiting when a button adds another
MaxFieldQueries == 2 \* statistics queries of the field select awaited at once
MaxLayers   == 2     \* layers registered when a session accepts no further file

----------------------------------------------------------------------------
(* JavaScript values *)

Null      == [t |-> "null"]
Undefined == [t |-> "undefined"]
\* a non-negative number whole + tenths/10
Num(whole, tenths) == [t |-> "number", whole |-> whole, tenths |-> tenths]
Integer(n) == Num(n, 0)
Str(s)    == [t |-> "string", s |-> s]
Bool(b)   == [t |-> "boolean", b |-> b]
Array(items) == [t |-> "array", items |-> items]
Throw(e)  == [t |-> "throw", error |-> e]

IsThrow(v) == v.t = "throw"

\* if (v), v && ..., !v
Truthy(v) ==
  CASE v.t = "null"      -> FALSE
    [] v.t = "undefined" -> FALSE
    [] v.t = "number"    -> ~(v.whole = 0 /\ v.tenths = 0)
    [] v.t = "string"    -> Len(v.s) > 0
    [] v.t = "boolean"   -> v.b
    [] OTHER             -> TRUE

\* every number taken for an integer
NumberIsInteger_always(v) == TRUE

\* Number.isInteger(v) for a number v
NumberIsInteger(v) == v.tenths = 0

\* String(v)
String(v) ==
  CASE v.t = "string"    -> v.s
    [] v.t = "number"    -> IF v.tenths = 0 THEN ToString(v.whole)
                            ELSE ToString(v.whole) \o "." \o ToString(v.tenths)
    [] v.t = "boolean"   -> IF v.b THEN "true" ELSE "false"
    [] v.t = "null"      -> "null"
    [] v.t = "undefined" -> "undefined"

----------------------------------------------------------------------------
(* Strings whose characters matter are sequences of one-character strings *)

UpperCase == <<"A","B","C","D","E","F","G","H","I","J","K","L","M",
               "N","O","P","Q","R","S","T","U","V","W","X","Y","Z">>
LowerCase == <<"a","b","c","d","e","f","g","h","i","j","k","l","m",
               "n","o","p","q","r","s","t","u","v","w","x","y","z">>

toLowerChar(c) ==
  IF \E i \in 1..26 : UpperCase[i] = c
  THEN LowerCase[CHOOSE i \in 1..26 : UpperCase[i] = c]
  ELSE c

\* toLowerCase left out
toLowerCase_omitted(s) == s

\* String.prototype.toLowerCase
toLowerCase(s) == [i \in 1..Len(s) |-> toLowerChar(s[i])]


\* String.prototype.endsWith
endsWith(s, suffix) ==
  /\ Len(suffix) <= Len(s)
  /\ SubSeq(s, Len(s) - Len(suffix) + 1, Len(s)) = suffix

\* str.split(".")[0]
BeforeFirstDot(s) ==
  IF \E i \in 1..Len(s) : s[i] = "."
  THEN SubSeq(s, 1, (CHOOSE i \in 1..Len(s) :
                       s[i] = "." /\ \A j \in 1..(i - 1) : s[j] # ".") - 1)
  ELSE s

----------------------------------------------------------------------------
(* Objects: an ordered list of entries with distinct keys *)

Object(entries) == [t |-> "object", entries |-> entries]

HasKey(obj, key) == \E i \in 1..Len(obj.entries) : obj.entries[i].key = key

\* obj[key]
Get(obj, key) ==
  IF HasKey(obj, key)
  THEN obj.entries[CHOOSE i \in 1..Len(obj.entries) : obj.entries[i].key = key].value
  ELSE Undefined

\* Object.keys(obj); no key of the model is an integer index, so this is
\* insertion order
ObjectKeys(obj) == [i \in 1..Len(obj.entries) |-> obj.entries[i].key]

RECURSIVE SelectEntries(_, _)
\* the entries of src whose key base does not have
SelectEntries(src, base) ==
  IF Len(src) = 0 THEN <<>>
  ELSE (IF HasKey(base, Head(src).key) THEN <<>> ELSE <<Head(src)>>)
         \o SelectEntries(Tail(src), base)

\* { ...base, ...props }: props overwrite base in place, new keys are appended;
\* spreading null or undefined adds nothing
Spread(base, props) ==
  IF props.t # "object" THEN base
  ELSE Object([i \in 1..Len(base.entries) |->
                  IF HasKey(props, base.entries[i].key)
                  THEN [key |-> base.entries[i].key,
                        value |-> Get(props, base.entries[i].key)]
                  ELSE base.entries[i]]
              \o SelectEntries(props.entries, base))

----------------------------------------------------------------------------
(* GeoJSON geometries *)

T_Point           == <<"P","o","i","n","t">>
T_LineString      == <<"L","i","n","e","S","t","r","i","n","g">>
T_Polygon         == <<"P","o","l","y","g","o","n">>
T_MultiPoint      == <<"M","u","l","t","i","P","o","i","n","t">>
T_MultiLineString == <<"M","u","l","t","i","L","i","n","e","S","t","r","i","n","g">>
T_MultiPolygon    == <<"M","u","l","t","i","P","o","l","y","g","o","n">>
T_POINT           == <<"P","O","I","N","T">>
T_GeometryCollection ==
  <<"G","e","o","m","e","t","r","y","C","o","l","l","e","c","t","i","o","n">>
T_Circle          == <<"C","i","r","c","l","e">>

\* the case labels of the switch statements of addGeoJSONToMap
point           == <<"p","o","i","n","t">>
linestring      == <<"l","i","n","e","s","t","r","i","n","g">>
polygon         == <<"p","o","l","y","g","o","n">>
multipoint      == <<"m","u","l","t","i","p","o","i","n","t">>
multilinestring == <<"m","u","l","t","i","l","i","n","e","s","t","r","i","n","g">>
multipolygon    == <<"m","u","l","t","i","p","o","l","y","g","o","n">>

Geometry(type, coordinates) ==
  [t |-> "object", type |-> type, coordinates |-> coordinates]

\* ring r of polygon part p: a closed ring, different for every (p, r)
Ring(p, r) == << <<p, r>>, <<p + 1, r>>, <<p, r + 1>>, <<p, r>> >>

\* the coordinates of a multipolygon whose part p has counts[p] rings
MultiPolygonCoordinates(counts) ==
  [p \in 1..Len(counts) |-> [r \in 1..counts[p] |-> Ring(p, r)]]

RECURSIVE SetToSeq(_)
SetToSeq(S) ==
  IF S = {} THEN <<>>
  ELSE LET x == CHOOSE y \in S : TRUE IN <<x>> \o SetToSeq(S \ {x})

\* every list of at most MaxParts ring counts, each in 1..MaxRings
RingCounts == SetToSeq(UNION {[1..n -> 1..MaxRings] : n \in 0..MaxParts})

NamedCRS == Object(<< [key |-> "type", value |-> Str("name")],
                      [key |-> "name", value |-> Str("EPSG:3857")] >>)

\* the geometries a feature of the model may carry
GeometrySamples ==
  << Geometry(Str(T_Point), <<46, 24>>),
     Geometry(Str(T_POINT), <<24, 46>>),
     Geometry(Str(T_LineString), << <<1, 2>>, <<3, 4>> >>),
     Geometry(Str(T_Polygon), << Ring(1, 1) >>),
     Geometry(Str(T_Polygon), << Ring(1, 1), Ring(1, 2) >>),
     Geometry(Str(T_MultiPoint), << <<1, 2>>, <<3, 4>> >>),
     Geometry(Str(T_MultiLineString),
              << << <<1, 2>>, <<3, 4>> >>, << <<5, 6>>, <<7, 8>> >> >>),
     Geometry(Str(T_GeometryCollection), <<>>),
     Geometry(Str(T_Circle), <<1, 2>>),
     Geometry(Str(<<>>), <<1, 2>>),
     Geometry(Undefined, <<1, 2>>),
     Null,
     Geometry(Str(multipolygon), MultiPolygonCoordinates(<<1, 1>>)) >>
  \o [i \in 1..Len(RingCounts) |->
        Geometry(Str(T_MultiPolygon), MultiPolygonCoordinates(RingCounts[i]))]

Feature(geometry, properties, crs) ==
  [t |-> "object", type |-> Str("Feature"), geometry |-> geometry,
   properties |-> properties, crs |-> crs, features |-> Undefined]

----------------------------------------------------------------------------
(* addGeoJSONToMap: conversion of one feature *)

WGS84 == 4326

\* only the outer ring of every polygon is kept
Flatten_outerRings(polygons) ==
  [p \in 1..Len(polygons) |-> polygons[p][1]]

RECURSIVE Flatten(_)
\* polygon.forEach(ring => allRings.push(ring)) for every polygon in turn
Flatten(polygons) ==
  IF Len(polygons) = 0 THEN <<>>
  ELSE [r \in 1..Len(Head(polygons)) |-> Head(polygons)[r]]
         \o Flatten(Tail(polygons))

\* the geometry computed for one feature: null, a geometry, or a TypeError
ConvertGeometry(feature) ==
  LET g == feature.geometry IN
  IF ~Truthy(g) THEN Null
  ELSE IF g.type.t # "string" THEN Throw("TypeError")
  ELSE LET type == toLowerCase(g.type.s) IN
    CASE type = point ->
           [t |-> "object", type |-> "point", longitude |-> g.coordinates[1],
            latitude |-> g.coordinates[2],
            spatialReference |-> [wkid |-> WGS84]]
      [] type = linestring ->
           [t |-> "object", type |-> "polyline", paths |-> <<g.coordinates>>,
            spatialReference |-> [wkid |-> WGS84]]
      [] type = polygon ->
           [t |-> "object", type |-> "polygon", rings |-> g.coordinates,
            spatialReference |-> [wkid |-> WGS84]]
      [] type = multipoint ->
           [t |-> "object", type |-> "multipoint", points |-> g.coordinates,
            spatialReference |-> [wkid |-> WGS84]]
      [] type = multilinestring ->
           [t |-> "object", type |-> "polyline", paths |-> g.coordinates,
            spatialReference |-> [wkid |-> WGS84]]
      [] type = multipolygon ->
           [t |-> "object", type |-> "polygon", rings |-> Flatten(g.coordinates),
            spatialReference |-> [wkid |-> WGS84]]
      [] OTHER -> Null


Attributes(feature, index) ==
  Spread(Object(<< [key |-> "OBJECTID", value |-> Integer(index)],
                   [key |-> "FID", value |-> Integer(index)] >>),
         feature.properties)

\* new Graphic({ geometry, attributes }) for the feature at position index
\* (counted from 1, as OBJECTID is)
Graphic(feature, index) ==
  [geometry |-> ConvertGeometry(feature),
   attributes |-> Attributes(feature, index)]

\* features.map(...).filter(graphic => graphic !== null && graphic.geometry !== null)
Graphics(features) ==
  SelectSeq([i \in 1..Len(features) |-> Graphic(features[i], i)],
            LAMBDA graphic : graphic.geometry # Null)

\* the map callback throws on feature.geometry.type.toLowerCase()
GraphicsThrow(features) ==
  \E i \in 1..Len(features) : IsThrow(ConvertGeometry(features[i]))

----------------------------------------------------------------------------
(* addGeoJSONToMap: fields *)

\* typeof value === 'number' && !isNaN(value); JSON has no NaN
IsNumber(value) == value.t = "number"

\* the type chosen for the property key, given every feature has properties
FieldType(features, key) ==
  LET hasNumber  == \E i \in 1..Len(features) :
                      IsNumber(Get(features[i].properties, key))
      hasDecimal == \E i \in 1..Len(features) :
                      LET value == Get(features[i].properties, key) IN
                        IsNumber(value) /\ ~NumberIsInteger(value)
  IN IF hasNumber THEN (IF hasDecimal THEN "double" ELSE "integer")
     ELSE "string"

\* whether properties of the first feature are looked at
HasFirstProperties(features) ==
  Len(features) > 0 /\ Truthy(features[1]) /\ Truthy(features[1].properties)

\* feature.properties[key] throws when a feature has null properties
FieldsThrow(features) ==
  /\ HasFirstProperties(features)
  /\ Len(ObjectKeys(features[1].properties)) > 0
  /\ \E i \in 1..Len(features) : features[i].properties.t # "object"

\* the fields of the layer (the alias of a field is not modelled)
Fields(features) ==
  << [name |-> "OBJECTID", type |-> "oid"],
     [name |-> "FID", type |-> "integer"] >>
  \o (IF HasFirstProperties(features)
      THEN LET keys == ObjectKeys(features[1].properties) IN
             [i \in 1..Len(keys) |->
                [name |-> keys[i], type |-> FieldType(features, keys[i])]]
      ELSE <<>>)

----------------------------------------------------------------------------
(* addGeoJSONToMap: geometry type, renderer and layer *)

GeometryType(features) ==
  LET firstGeometry == IF Len(features) > 0 THEN features[1].geometry
                       ELSE Undefined
  IN IF ~Truthy(firstGeometry) THEN "polygon"
     ELSE LET type == toLowerCase(firstGeometry.type.s) IN
       CASE type = point \/ type = multipoint -> "point"
         [] type = linestring \/ type = multilinestring -> "polyline"
         [] type = polygon \/ type = multipolygon -> "polygon"
         [] OTHER -> "polygon"

\* `esriGeometry${geometryType.charAt(0).toUpperCase() + geometryType.slice(1)}`
EsriGeometryType(geometryType) ==
  CASE geometryType = "point"    -> "esriGeometryPoint"
    [] geometryType = "polyline" -> "esriGeometryPolyline"
    [] geometryType = "polygon"  -> "esriGeometryPolygon"

LayerColors ==
  << <<59, 130, 246>>, <<20, 184, 166>>, <<249, 115, 22>>,
     <<139, 92, 246>>, <<34, 197, 94>> >>

\* createCustomRenderer, called when numLayers layers are in uploadedLayers
createCustomRenderer(geometryType, numLayers) ==
  LET colorIndex == numLayers % Len(LayerColors)
      color      == LayerColors[colorIndex + 1]
  IN IF geometryType = "esriGeometryPoint"
     THEN [type |-> "simple",
           symbol |-> [type |-> "simple-marker", color |-> color, size |-> 8,
                       outline |-> [color |-> <<255, 255, 255>>, width |-> 2]]]
     ELSE IF geometryType = "esriGeometryPolyline"
     THEN [type |-> "simple",
           symbol |-> [type |-> "simple-line", color |-> color, width |-> 3]]
     ELSE [type |-> "simple",
           symbol |-> [type |-> "simple-fill", color |-> color \o <<"0.3">>,
                       outline |-> [color |-> color, width |-> 2]]]

GeoJSONLayerTitle == <<"G","e","o","J","S","O","N"," ","L","a","y","e","r">>

\* new FeatureLayer({...}) as addGeoJSONToMap builds it
FeatureLayer(features, layerName, numLayers) ==
  [source |-> Graphics(features),
   fields |-> Fields(features),
   objectIdField |-> "OBJECTID",
   geometryType |-> GeometryType(features),
   title |-> IF Len(layerName) > 0 THEN layerName ELSE GeoJSONLayerTitle,
   renderer |-> createCustomRenderer(EsriGeometryType(GeometryType(features)),
                                     numLayers),
   spatialReference |-> [wkid |-> WGS84]]

\* whether addGeoJSONToMap throws before it registers the layer
AddGeoJSONThrows(features) == GraphicsThrow(features) \/ FieldsThrow(features)


----------------------------------------------------------------------------
(* processGeoJSON and handleFileUpload (fileType 'geojson') *)

\* 50 MB counted in powers of ten
MaxFileSize_decimal == 50 * 1000 * 1000

MaxFileSize == 50 * 1024 * 1024

Status(className, message) == [className |-> className, message |-> message]

NoStatus == Status("", "")

\* delete geoJSONData.crs, and delete feature.crs for every feature
StripCRS(data) ==
  IF Truthy(data.features)
  THEN [data EXCEPT !.crs = Undefined,
                    !.features = Array([i \in 1..Len(data.features.items) |->
                       [data.features.items[i] EXCEPT !.crs = Undefined]])]
  ELSE [data EXCEPT !.crs = Undefined]

\* what addGeoJSONToMap does with the validated collection: the layers it
\* registers and the status the upload ends with.  A failure of the zoom
\* that follows the registration is caught inside addGeoJSONToMap and
\* changes nothing.
addGeoJSONToMap(features, layerName, numLayers) ==
  IF AddGeoJSONThrows(features)
  THEN [status |-> Status("error", "Error: TypeError"), layers |-> <<>>]
  ELSE [status |-> Status("success", "Successfully loaded"),
        layers |-> << FeatureLayer(features, layerName, numLayers) >>]

Rejected(message) == [status |-> Status("error", message), layers |-> <<>>]

\* the type of the parsed content is not validated
processGeoJSON_typeUnchecked(f, numLayers) ==
  IF IsThrow(f.content) \/ f.content = Null
  THEN Rejected("Error: no content")
  ELSE
    LET cleaned  == StripCRS(f.content)
        features == IF cleaned.type = Str("Feature") THEN <<cleaned>>
                    ELSE IF Truthy(cleaned.features) THEN cleaned.features.items
                    ELSE <<>>
    IN IF Len(features) = 0
       THEN Rejected("Error: GeoJSON file contains no features.")
       ELSE addGeoJSONToMap(features, BeforeFirstDot(f.name), numLayers)

processGeoJSON(f, numLayers) ==
  IF IsThrow(f.content)
  THEN IF f.content.error = "SyntaxError"
       THEN Rejected("Error: Invalid JSON format. Please check your GeoJSON file.")
       ELSE Rejected("Error: " \o f.content.error)
  ELSE IF f.content = Null
  THEN Rejected("Error: TypeError")
  ELSE
    LET cleaned == StripCRS(f.content) IN
    IF \/ ~Truthy(cleaned.type)
       \/ (cleaned.type # Str("FeatureCollection") /\ cleaned.type # Str("Feature"))
    THEN Rejected("Error: Invalid GeoJSON. Must be a FeatureCollection or Feature.")
    ELSE
      LET geoJSONData ==
            IF cleaned.type = Str("Feature")
            THEN [t |-> "object", type |-> Str("FeatureCollection"),
                  features |-> Array(<<cleaned>>)]
            ELSE cleaned
      IN IF ~Truthy(geoJSONData.features) \/ Len(geoJSONData.features.items) = 0
         THEN Rejected("Error: GeoJSON file contains no features.")
         ELSE addGeoJSONToMap(geoJSONData.features.items,
                              BeforeFirstDot(f.name), numLayers)

DotJson    == <<".","j","s","o","n">>
DotGeojson == <<".","g","e","o","j","s","o","n">>

DotZip     == <<".","z","i","p">>

\* the geometry type the layer reports for the one of its layerDefinition
LayerGeometryType(esriGeometryType) ==
  CASE esriGeometryType = "esriGeometryPoint"    -> "point"
    [] esriGeometryType = "esriGeometryPolyline" -> "polyline"
    [] esriGeometryType = "esriGeometryPolygon"  -> "polygon"

UploadedLayerTitle(index) ==
  <<"U","p","l","o","a","d","e","d"," ","L","a","y","e","r"," ">>
    \o <<ToString(index)>>

\* new FeatureLayer({...}) as addShapefileToMap builds it for the layer at
\* position index (from 1) of the feature collection
ShapefileLayer(layer, index, numLayers) ==
  [source |-> layer.featureSet.features,
   fields |-> layer.layerDefinition.fields,
   objectIdField |-> "FID",
   geometryType |-> LayerGeometryType(layer.layerDefinition.geometryType),
   title |-> IF Len(layer.layerDefinition.name) > 0
             THEN layer.layerDefinition.name ELSE UploadedLayerTitle(index),
   renderer |-> createCustomRenderer(layer.layerDefinition.geometryType,
                                     numLayers),
   spatialReference |-> [wkid |-> WGS84]]

\* the zoom that follows the registration is awaited and not guarded
addShapefileToMap_zoomGuarded(featureCollection, numLayers, zoomRejects) ==
  [status |-> Status("success", "Successfully loaded"),
   layers |-> [i \in 1..Len(featureCollection.layers) |->
                 ShapefileLayer(featureCollection.layers[i], i, numLayers)]]

\* addShapefileToMap: every layer of the collection is registered, then the
\* view zooms to the graphics, if there are any; a rejected zoom is thrown on
addShapefileToMap(featureCollection, numLayers, zoomRejects) ==
  LET layers == [i \in 1..Len(featureCollection.layers) |->
                   ShapefileLayer(featureCollection.layers[i], i, numLayers)]
      hasGraphics == \E i \in 1..Len(layers) : Len(layers[i].source) > 0
  IN [status |-> IF hasGraphics /\ zoomRejects
                 THEN Status("error", "Error: goTo rejected")
                 ELSE Status("success", "Successfully loaded"),
      layers |-> layers]

\* generateFeatureCollection: f.content is what the generate request of the
\* portal answers
generateFeatureCollection(f, numLayers, zoomRejects) ==
  IF IsThrow(f.content)
  THEN Rejected("Error: " \o f.content.error)
  ELSE IF Truthy(f.content.error)
  THEN Rejected("Error: " \o f.content.error.s)
  ELSE IF Len(f.content.featureCollection.layers) = 0
  THEN Rejected("Error: TypeError")
  ELSE addShapefileToMap(f.content.featureCollection, numLayers, zoomRejects)

\* handleFileUpload(file, fileType): the layers to register and the final status
Upload(f, numLayers, zoomRejects) ==
  IF f.fileType = "shapefile" /\ ~endsWith(toLowerCase(f.name), DotZip)
  THEN Rejected("Please select a ZIP file containing shapefile data.")
  ELSE IF /\ f.fileType = "geojson"
          /\ ~endsWith(toLowerCase(f.name), DotJson)
          /\ ~endsWith(toLowerCase(f.name), DotGeojson)
  THEN Rejected("Please select a .json or .geojson file.")
  ELSE IF f.size > MaxFileSize
  THEN Rejected("File size exceeds 50MB limit.")
  ELSE IF f.fileType = "shapefile"
  THEN generateFeatureCollection(f, numLayers, zoomRejects)
  ELSE processGeoJSON(f, numLayers)

\* the user drops or picks a file; a behaviour holds one upload.  Whether
\* view.goTo rejects is up to the map view.
handleFileUpload ==
  /\ uploadStatus = NoStatus
  /\ \E zoomRejects \in BOOLEAN :
     LET result == Upload(file, Len(uploadedLayers), zoomRejects) IN
       /\ uploadStatus' = result.status
       /\ displayMap' = displayMap \o result.layers
       /\ uploadedLayers' = uploadedLayers \o result.layers
  /\ UNCHANGED <<laterVars, file, queried, stats, panelVars>>

----------------------------------------------------------------------------
(* Inputs of the upload *)

FileNames ==
  << <<"a",".","g","e","o","j","s","o","n">>,
     <<"b",".","J","S","O","N">>,
     <<"c",".","z","i","p">>,
     <<"D",".","Z","I","P">>,
     <<"z","i","p">> >>

FileSizes == << 1024, MaxFileSize, MaxFileSize + 1 >>

\* the parsed content of a file: kinds of top-level value
FeatureCollection(crs, features) ==
  [t |-> "object", type |-> Str("FeatureCollection"), crs |-> crs,
   features |-> Array(features), geometry |-> Undefined,
   properties |-> Undefined]

Content(kind, crs, features) ==
  CASE kind = 1 -> FeatureCollection(crs, features)
    [] kind = 2 -> IF Len(features) > 0
                   THEN [features[1] EXCEPT !.crs = crs]
                   ELSE Feature(Null, Null, crs)
    [] kind = 3 -> [FeatureCollection(crs, features) EXCEPT !.type = Str("Topology")]
    [] kind = 4 -> [FeatureCollection(crs, features) EXCEPT !.type = Undefined]
    [] kind = 5 -> [FeatureCollection(crs, features) EXCEPT !.features = Undefined]
    [] kind = 6 -> Throw("SyntaxError")
    [] kind = 7 -> Throw("NotReadableError")
    [] kind = 8 -> Null

ContentKinds == 1..8

NameA == Object(<< [key |-> "name", value |-> Str("A")] >>)

\* property objects of the features, all about the key "k"
PropertySamples ==
  << Null,
     Object(<<>>),
     Object(<< [key |-> "k", value |-> Integer(1)] >>),
     Object(<< [key |-> "k", value |-> Integer(3)] >>),
     Object(<< [key |-> "k", value |-> Num(2, 5)] >>),
     Object(<< [key |-> "k", value |-> Str("a")] >>),
     Object(<< [key |-> "k", value |-> Null] >>),
     Object(<< [key |-> "k", value |-> Bool(TRUE)] >>),
     Object(<< [key |-> "j", value |-> Str("A")] >>),
     Object(<< [key |-> "OBJECTID", value |-> Integer(7)],
               [key |-> "k", value |-> Integer(1)] >>) >>

CRSOf(declared) == IF declared THEN NamedCRS ELSE Undefined

\* the classes the callbacks of setTimeout add: 'show' and 'hidden' to
\* #featurePanel, 'hidden' to #loadingOverlay
TimerNames == {"featureShow", "featureHidden", "overlayHidden"}

NoTimers == [name \in TimerNames |-> 0]

\* no feature was clicked yet: no highlight, the feature panel hidden, no
\* callback waiting
InitLater ==
  /\ currentHighlight = 0
  /\ viewGraphics = <<>>
  /\ clicks = <<>>
  /\ clicked = 0
  /\ featurePanel = [hidden |-> TRUE, show |-> FALSE, feature |-> 0]
  /\ timers = NoTimers
  /\ fieldInfo = [display |-> "none", content |-> Null]
  /\ fieldQueries = <<>>
  /\ loadingOverlay = [hidden |-> TRUE]
  /\ processing = <<>>

\* the panel and the legend as the page has them before any layer is
\* classified
InitPanel ==
  /\ currentClassificationLayer = 0
  /\ fieldSelect = [options |-> <<>>, value |-> ""]
  /\ classificationPanel = [hidden |-> TRUE]
  /\ mapLegend = [hidden |-> TRUE, title |-> "", items |-> <<>>]
  /\ applyBtn = [disabled |-> FALSE]
  /\ alerted = ""

InitRest ==
  /\ InitPanel
  /\ InitLater
  /\ uploadStatus = NoStatus
  /\ displayMap = <<>>
  /\ uploadedLayers = <<>>
  /\ queried = [features |-> <<>>, fieldName |-> "", state |-> "none"]
  /\ stats = [t |-> "pending"]

\* the geometries written out in GeometrySamples, without the generated
\* multipolygons
NumWrittenSamples == Len(GeometrySamples) - Len(RingCounts)

UploadedFile(kind, nm, sz, declared, geometries) ==
  [name |-> FileNames[nm], size |-> FileSizes[sz], fileType |-> "geojson",
   content |-> Content(kind, CRSOf(declared),
                  [i \in 1..Len(geometries) |->
                     Feature(GeometrySamples[geometries[i]], NameA,
                             CRSOf(declared))])]

\* a file whose features carry every kind of geometry: a collection of
\* written-out geometries, or one generated multipolygon, or one feature in
\* every kind of file
InitGeometries ==
  /\ InitRest
  /\ \E declared \in BOOLEAN :
       \/ \E n \in 0..MaxFeatures : \E g \in [1..n -> 1..NumWrittenSamples] :
            file = UploadedFile(1, 1, 1, declared, g)
       \/ \E g \in (NumWrittenSamples + 1)..Len(GeometrySamples) :
            file = UploadedFile(1, 1, 1, declared, <<g>>)
       \/ \E kind \in ContentKinds, nm \in 1..Len(FileNames),
             sz \in 1..Len(FileSizes), g \in 1..3 :
            file = UploadedFile(kind, nm, sz, declared, <<g>>)

\* the layers of the feature collection the portal generates from a
\* shapefile: points with two features, a polygon without a name, a layer
\* without features
GeneratedLayers ==
  << [layerDefinition |->
        [name |-> <<"p","t","s">>, geometryType |-> "esriGeometryPoint",
         fields |-> << [name |-> "FID", type |-> "oid"],
                       [name |-> "kind", type |-> "string"] >>],
      featureSet |->
        [features |->
           << [geometry |-> [t |-> "object", type |-> "point", x |-> 46, y |-> 24],
               attributes |-> Object(<< [key |-> "FID", value |-> Integer(0)],
                                        [key |-> "kind", value |-> Str("a")] >>)],
              [geometry |-> [t |-> "object", type |-> "point", x |-> 47, y |-> 25],
               attributes |-> Object(<< [key |-> "FID", value |-> Integer(1)],
                                        [key |-> "kind", value |-> Str("b")] >>)] >>]],
     [layerDefinition |->
        [name |-> <<>>, geometryType |-> "esriGeometryPolygon",
         fields |-> << [name |-> "FID", type |-> "oid"] >>],
      featureSet |->
        [features |->
           << [geometry |-> [t |-> "object", type |-> "polygon",
                             rings |-> << Ring(1, 1) >>],
               attributes |-> Object(<< [key |-> "FID", value |-> Integer(0)] >>)] >>]],
     [layerDefinition |->
        [name |-> <<"n","o","n","e">>, geometryType |-> "esriGeometryPolyline",
         fields |-> << [name |-> "FID", type |-> "oid"] >>],
      featureSet |-> [features |-> <<>>]] >>

\* response.data of the generate request with these layers
Generated(layers) ==
  [t |-> "object", error |-> Undefined,
   featureCollection |-> [layers |-> [i \in 1..Len(layers) |->
                                        GeneratedLayers[layers[i]]]]]

\* what the generate request answers: it fails, it reports an error, or it
\* gives a feature collection
ResponseSamples ==
  << Throw("Request failed"),
     [t |-> "object", error |-> Str("Invalid file"),
      featureCollection |-> Undefined],
     Generated(<<>>),
     Generated(<<1>>),
     Generated(<<1, 2>>),
     Generated(<<3>>) >>

\* a file of any name and size dropped on either drop zone: on the GeoJSON
\* one, every kind of content with at most one feature; on the shapefile
\* one, every answer of the portal
InitUpload ==
  /\ InitRest
  /\ \E nm \in 1..Len(FileNames), sz \in 1..Len(FileSizes) :
       \/ \E kind \in ContentKinds, n \in 0..1 :
            file = UploadedFile(kind, nm, sz, FALSE, [i \in 1..n |-> 1])
       \/ \E r \in 1..Len(ResponseSamples) :
            file = [name |-> FileNames[nm], size |-> FileSizes[sz],
                    fileType |-> "shapefile", content |-> ResponseSamples[r]]

\* a file whose features carry every kind of property object
InitProperties ==
  /\ InitRest
  /\ \E n \in 0..MaxRows :
       \E p \in [1..n -> 1..Len(PropertySamples)] :
         file = [name |-> FileNames[1], size |-> FileSizes[1],
                 fileType |-> "geojson",
                 content |-> FeatureCollection(Undefined,
                    [i \in 1..n |->
                       Feature(GeometrySamples[1], PropertySamples[p[i]],
                               Undefined)])]

NextUpload == handleFileUpload

SpecGeometries == InitGeometries /\ [][NextUpload]_vars

SpecProperties == InitProperties /\ [][NextUpload]_vars

SpecUpload == InitUpload /\ [][NextUpload]_vars


----------------------------------------------------------------------------
(* analyzeFieldValues *)

TopValues == 20

\* whether a property key is an integer index: the decimal form of an integer
IsArrayIndex(key) == \E n \in 0..MaxIndex : ToString(n) = key

ArrayIndex(key) == CHOOSE n \in 0..MaxIndex : ToString(n) = key

\* valueCount[key] = 1: the count is not accumulated
Increment_notAccumulated(entries, key) ==
  IF \E i \in 1..Len(entries) : entries[i].key = key
  THEN entries
  ELSE Append(entries, [key |-> key, value |-> 1])

\* valueCount[key] = (valueCount[key] || 0) + 1 on the entries of valueCount,
\* kept in the order the keys were created
Increment(entries, key) ==
  IF \E i \in 1..Len(entries) : entries[i].key = key
  THEN [i \in 1..Len(entries) |->
          IF entries[i].key = key
          THEN [key |-> key, value |-> entries[i].value + 1]
          ELSE entries[i]]
  ELSE Append(entries, [key |-> key, value |-> 1])

RECURSIVE Tally(_, _)
\* validValues.forEach(value => ...) starting from the entries so far
Tally(entries, validValues) ==
  IF Len(validValues) = 0 THEN entries
  ELSE Tally(Increment(entries, String(Head(validValues))), Tail(validValues))

RECURSIVE SortByIndex(_)
\* the entries whose key is an integer index, in ascending order of the index
SortByIndex(entries) ==
  IF Len(entries) = 0 THEN <<>>
  ELSE LET least == CHOOSE i \in 1..Len(entries) :
                      \A j \in 1..Len(entries) :
                        ArrayIndex(entries[i].key) <= ArrayIndex(entries[j].key)
       IN <<entries[least]>>
            \o SortByIndex([j \in 1..(Len(entries) - 1) |->
                              IF j < least THEN entries[j] ELSE entries[j + 1]])

\* Object.entries(valueCount): integer indices first, in ascending numeric
\* order, then the other keys in the order they were created
ObjectEntries(entries) ==
  SortByIndex(SelectSeq(entries, LAMBDA e : IsArrayIndex(e.key)))
    \o SelectSeq(entries, LAMBDA e : ~IsArrayIndex(e.key))

\* the place of e in a list sorted by (a, b) => b[1] - a[1]: behind every
\* entry whose count is not smaller
InsertSorted(sorted, e) ==
  LET before == SelectSeq(sorted, LAMBDA x : x.value >= e.value)
      after  == SelectSeq(sorted, LAMBDA x : x.value < e.value)
  IN before \o <<e>> \o after

RECURSIVE SortFrom(_, _)
SortFrom(sorted, entries) ==
  IF Len(entries) = 0 THEN sorted
  ELSE SortFrom(InsertSorted(sorted, Head(entries)), Tail(entries))

\* entries.sort((a, b) => b[1] - a[1]); Array.prototype.sort is stable
SortByCount(entries) == SortFrom(<<>>, entries)

\* the slice left out
Slice_omitted(array, end) == array

\* array.slice(0, end)
Slice(array, end) ==
  SubSeq(array, 1, IF Len(array) < end THEN Len(array) ELSE end)

\* filter(value => value): 0 and false are dropped too
IsValidValue_truthy(value) == Truthy(value)

\* the filter of analyzeFieldValues
IsValidValue(value) == value # Null /\ value # Undefined /\ value # Str("")

\* the value analyzeFieldValues returns once queryFeatures has resolved with
\* features
FieldStatistics(features, fieldName) ==
  IF Len(features) = 0 THEN Null
  ELSE
    LET values      == [i \in 1..Len(features) |->
                          Get(features[i].attributes, fieldName)]
        validValues == SelectSeq(values, IsValidValue)
        valueCount  == Tally(<<>>, validValues)
    IN [t |-> "object",
        totalFeatures |-> Len(features),
        validCount    |-> Len(validValues),
        uniqueCount   |-> Len(valueCount),
        sortedValues  |-> Slice(SortByCount(ObjectEntries(valueCount)), TopValues),
        fieldName     |-> fieldName]

\* analyzeFieldValues(layer, fieldName), the query resolving
analyzeFieldValues ==
  /\ queried.state = "pending"
  /\ queried' = [queried EXCEPT !.state = "resolved"]
  /\ stats' = FieldStatistics(queried.features, queried.fieldName)
  /\ UNCHANGED <<laterVars, file, uploadStatus, displayMap, uploadedLayers, panelVars>>

\* analyzeFieldValues(layer, fieldName), the query rejecting: the error is
\* caught and null is returned
analyzeFieldValuesQueryFails ==
  /\ queried.state = "pending"
  /\ queried' = [queried EXCEPT !.state = "rejected"]
  /\ stats' = Null
  /\ UNCHANGED <<laterVars, file, uploadStatus, displayMap, uploadedLayers, panelVars>>

----------------------------------------------------------------------------
(* Classification: generateColors, the unique-value renderer, the legend *)

\* the colors of generateColors
Palette ==
  << <<59, 130, 246>>, <<34, 197, 94>>,  <<249, 115, 22>>, <<139, 92, 246>>,
     <<236, 72, 153>>, <<20, 184, 166>>, <<245, 158, 11>>, <<239, 68, 68>>,
     <<156, 163, 175>>, <<16, 185, 129>>, <<124, 58, 237>>, <<217, 70, 239>>,
     <<14, 165, 233>>, <<34, 197, 94>>,  <<251, 146, 60>>, <<244, 63, 94>>,
     <<168, 85, 247>>, <<59, 130, 246>>, <<16, 185, 129>>, <<245, 158, 11>> >>

\* colors[(i + 1) % colors.length] instead of colors[i % colors.length]
generateColors_shifted(count) ==
  [i \in 1..count |-> Palette[(i % Len(Palette)) + 1]]

\* result[i] = colors[i % colors.length], positions counted from 1 here
generateColors(count) ==
  [i \in 1..count |-> Palette[((i - 1) % Len(Palette)) + 1]]

\* the symbol of the rule with this color
ValueSymbol(layerGeometryType, color) ==
  IF layerGeometryType = "point"
  THEN [type |-> "simple-marker", color |-> color, size |-> 8,
        outline |-> [color |-> <<255, 255, 255>>, width |-> 1]]
  ELSE IF layerGeometryType = "polyline"
  THEN [type |-> "simple-line", color |-> color, width |-> 3]
  ELSE [type |-> "simple-fill", color |-> color \o <<"0.7">>,
        outline |-> [color |-> color, width |-> 2]]

\* the count left out of the label
RuleLabel_valueOnly(value, count) == value

\* `${value} (${count})`
RuleLabel(value, count) == value \o " (" \o ToString(count) \o ")"

\* stats.sortedValues.map(([value, count], index) => ({ value, symbol, label }))
UniqueValueInfos(statistics, colors, layerGeometryType) ==
  [i \in 1..Len(statistics.sortedValues) |->
     LET value == statistics.sortedValues[i].key
         count == statistics.sortedValues[i].value
     IN [value  |-> value,
         symbol |-> ValueSymbol(layerGeometryType, colors[i]),
         label  |-> RuleLabel(value, count)]]

createDefaultSymbol(geometryType) ==
  IF geometryType = "point"
  THEN [type |-> "simple-marker", color |-> <<128, 128, 128, "0.8">>,
        size |-> 6, outline |-> [color |-> <<255, 255, 255>>, width |-> 1]]
  ELSE IF geometryType = "polyline"
  THEN [type |-> "simple-line", color |-> <<128, 128, 128, "0.8">>,
        width |-> 2]
  ELSE [type |-> "simple-fill", color |-> <<128, 128, 128, "0.5">>,
        outline |-> [color |-> <<128, 128, 128>>, width |-> 1]]

\* the renderer applyFieldClassification builds (defaultLabel is a fixed text)
UniqueValueRenderer(statistics, fieldName, layerGeometryType) ==
  [type |-> "unique-value",
   field |-> fieldName,
   uniqueValueInfos |->
     UniqueValueInfos(statistics,
                      generateColors(Len(statistics.sortedValues)),
                      layerGeometryType),
   defaultSymbol |-> createDefaultSymbol(layerGeometryType)]

\* the percentage cut off behind its first decimal instead of rounded
PercentageTenths_truncated(count, validCount) ==
  (1000 * count) \div validCount

\* ((count / validCount) * 100).toFixed(1) in tenths of a percent: the
\* nearest tenth, the larger one when two are equally near
PercentageTenths(count, validCount) ==
  (2000 * count + validCount) \div (2 * validCount)

\* n tenths written with one decimal
toFixed1(tenths) == ToString(tenths \div 10) \o "." \o ToString(tenths % 10)

\* one .legend-item: the color of .legend-color, the text of .legend-label
\* and the text of .legend-count
LegendItem(value, count, color, validCount) ==
  [color |-> color,
   label |-> value,
   count |-> ToString(count) \o " ("
               \o toFixed1(PercentageTenths(count, validCount)) \o "%)"]

\* the field label of the legend title: field.name (an alias is not
\* modelled), or fieldName when the layer has no such field
FieldLabel(layer, fieldName) == fieldName

\* #mapLegend after createMapLegend(stats, colors, fieldName)
createMapLegend(statistics, colors, fieldName, layer) ==
  [hidden |-> FALSE,
   title  |-> FieldLabel(layer, fieldName),
   items  |-> [i \in 1..Len(statistics.sortedValues) |->
                 LegendItem(statistics.sortedValues[i].key,
                            statistics.sortedValues[i].value,
                            colors[i], statistics.validCount)]]

----------------------------------------------------------------------------
(* The classification panel.  A layer is named by its position in           *)
(* uploadedLayers; displayMap holds the same layer objects at the same      *)
(* positions.  The controls of the panel (field select, apply, reset,      *)
(* close) are usable while the panel does not carry the class hidden.       *)

\* alert('...') texts, in English
PleaseSelectField == "Please select a field to classify"
NoValidValues     == "No valid values in the selected field"
ApplyError        == "An error occurred while applying the classification"

NoQuery == [features |-> <<>>, fieldName |-> "", state |-> "none"]

\* layer.queryFeatures(query) with where 1=1 and no geometry
QueryFeatures(layer) ==
  [i \in 1..Len(layer.source) |-> [attributes |-> layer.source[i].attributes]]

\* the names of the fields openClassificationPanel offers
FieldOptions(layer) ==
  LET relevant == SelectSeq(layer.fields,
                            LAMBDA field : field.type \in {"double", "integer", "string"})
  IN [i \in 1..Len(relevant) |-> relevant[i].name]

\* #classificationPanel is shown
PanelShown == ~classificationPanel.hidden

\* the renderer given to every layer instead of the one at position i
SetRenderer_everyLayer(layers, i, renderer) ==
  [j \in 1..Len(layers) |-> [layers[j] EXCEPT !.renderer = renderer]]

\* layers with the renderer of the layer at position i replaced
SetRenderer(layers, i, renderer) ==
  [j \in 1..Len(layers) |->
     IF j = i THEN [layers[j] EXCEPT !.renderer = renderer] ELSE layers[j]]

\* the classify button of a layer in the layer list
openClassificationPanel ==
  /\ \E layer \in 1..Len(uploadedLayers) :
       /\ currentClassificationLayer' = layer
       /\ fieldSelect' = [options |-> FieldOptions(uploadedLayers[layer]),
                          value |-> ""]
  /\ classificationPanel' = [hidden |-> FALSE]
  /\ alerted' = ""
  /\ UNCHANGED <<laterVars, file, uploadStatus, displayMap, uploadedLayers, queried,
                 stats, mapLegend, applyBtn>>

\* the user picks an option of #fieldSelect (the statistics the change
\* handler displays in #fieldInfo are not part of the state)
fieldSelectChange ==
  /\ PanelShown
  /\ \E i \in 0..Len(fieldSelect.options) :
       fieldSelect' = [fieldSelect EXCEPT
                         !.value = IF i = 0 THEN "" ELSE fieldSelect.options[i]]
  /\ alerted' = ""
  /\ UNCHANGED <<laterVars, file, uploadStatus, displayMap, uploadedLayers, queried,
                 stats, currentClassificationLayer, classificationPanel,
                 mapLegend, applyBtn>>

\* the close button of the panel
closeClassification ==
  /\ PanelShown
  /\ classificationPanel' = [hidden |-> TRUE]
  /\ mapLegend' = [mapLegend EXCEPT !.hidden = TRUE]
  /\ currentClassificationLayer' = 0
  /\ alerted' = ""
  /\ UNCHANGED <<laterVars, file, uploadStatus, displayMap, uploadedLayers, queried,
                 stats, fieldSelect, applyBtn>>

\* applyFieldClassification up to its await: either the early return, or the
\* button is disabled and the statistics of the current layer are requested
applyFieldClassification ==
  /\ PanelShown
  /\ ~applyBtn.disabled
  /\ IF fieldSelect.value = "" \/ currentClassificationLayer = 0
     THEN /\ alerted' = PleaseSelectField
          /\ UNCHANGED <<queried, stats, applyBtn>>
     ELSE /\ applyBtn' = [disabled |-> TRUE]
          /\ queried' = [features |->
                            QueryFeatures(uploadedLayers[currentClassificationLayer]),
                         fieldName |-> fieldSelect.value,
                         state |-> "pending"]
          /\ stats' = [t |-> "pending"]
          /\ alerted' = ""
  /\ UNCHANGED <<laterVars, file, uploadStatus, displayMap, uploadedLayers,
                 currentClassificationLayer, fieldSelect, classificationPanel,
                 mapLegend>>

\* analyzeFieldValues has returned to applyFieldClassification
Returned == applyBtn.disabled /\ queried.state \in {"resolved", "rejected"}

\* only !stats
NothingToClassify_nullOnly(statistics) == statistics = Null

\* !stats || stats.uniqueCount === 0
NothingToClassify(statistics) ==
  IF statistics = Null THEN TRUE ELSE statistics.uniqueCount = 0

\* the call ends without its finally block
applyFinally_omitted ==
  /\ applyBtn' = applyBtn
  /\ queried' = NoQuery
  /\ stats' = [t |-> "pending"]

\* the finally block, and the locals of the call going away
applyFinally ==
  /\ applyBtn' = [disabled |-> FALSE]
  /\ queried' = NoQuery
  /\ stats' = [t |-> "pending"]

\* after the await: no statistics or no valid value, alert and return
applyFieldClassificationNoValues ==
  /\ Returned
  /\ NothingToClassify(stats)
  /\ alerted' = NoValidValues
  /\ applyFinally
  /\ UNCHANGED <<laterVars, file, uploadStatus, displayMap, uploadedLayers,
                 currentClassificationLayer, fieldSelect, classificationPanel,
                 mapLegend>>

\* after the await: currentClassificationLayer is null by now, reading its
\* geometryType throws and the catch block alerts
applyFieldClassificationFails ==
  /\ Returned
  /\ ~NothingToClassify(stats)
  /\ currentClassificationLayer = 0
  /\ alerted' = ApplyError
  /\ applyFinally
  /\ UNCHANGED <<laterVars, file, uploadStatus, displayMap, uploadedLayers,
                 currentClassificationLayer, fieldSelect, classificationPanel,
                 mapLegend>>

\* the renderer is assigned, then building the legend throws
applyFieldClassificationAssigns_legendThrows ==
  /\ Returned
  /\ ~NothingToClassify(stats)
  /\ currentClassificationLayer # 0
  /\ LET layer    == uploadedLayers[currentClassificationLayer]
         renderer == UniqueValueRenderer(stats, queried.fieldName,
                                         layer.geometryType)
     IN /\ uploadedLayers' =
             SetRenderer(uploadedLayers, currentClassificationLayer, renderer)
        /\ displayMap' =
             SetRenderer(displayMap, currentClassificationLayer, renderer)
  /\ alerted' = ApplyError
  /\ applyFinally
  /\ UNCHANGED <<laterVars, file, uploadStatus, currentClassificationLayer, fieldSelect,
                 classificationPanel, mapLegend>>

\* after the await: the renderer is built and assigned to the layer that is
\* current now, the legend is filled and shown, the panel is hidden
applyFieldClassificationAssigns ==
  /\ Returned
  /\ ~NothingToClassify(stats)
  /\ currentClassificationLayer # 0
  /\ LET layer    == uploadedLayers[currentClassificationLayer]
         colors   == generateColors(Len(stats.sortedValues))
         renderer == UniqueValueRenderer(stats, queried.fieldName,
                                         layer.geometryType)
     IN /\ uploadedLayers' =
             SetRenderer(uploadedLayers, currentClassificationLayer, renderer)
        /\ displayMap' =
             SetRenderer(displayMap, currentClassificationLayer, renderer)
        /\ mapLegend' = createMapLegend(stats, colors, queried.fieldName, layer)
  /\ classificationPanel' = [hidden |-> TRUE]
  /\ alerted' = ""
  /\ applyFinally
  /\ UNCHANGED <<laterVars, file, uploadStatus, currentClassificationLayer, fieldSelect>>

\* the symbol resetLayerRenderer gives the layer at layerIndex (from 0)
ResetSymbol(geometryType, layerIndex) ==
  LET color == LayerColors[(layerIndex % Len(LayerColors)) + 1] IN
    IF geometryType = "point"
    THEN [type |-> "simple-marker", color |-> color, size |-> 8,
          outline |-> [color |-> <<255, 255, 255>>, width |-> 2]]
    ELSE IF geometryType = "polyline"
    THEN [type |-> "simple-line", color |-> color, width |-> 3]
    ELSE [type |-> "simple-fill", color |-> color \o <<"0.3">>,
          outline |-> [color |-> color, width |-> 2]]

\* the reset that forgets to hide the legend
resetLayerRenderer_legendShown ==
  /\ PanelShown
  /\ alerted' = ""
  /\ currentClassificationLayer # 0
  /\ LET layer    == uploadedLayers[currentClassificationLayer]
         renderer == [type |-> "simple",
                      symbol |-> ResetSymbol(layer.geometryType,
                                             currentClassificationLayer - 1)]
     IN /\ uploadedLayers' =
             SetRenderer(uploadedLayers, currentClassificationLayer, renderer)
        /\ displayMap' =
             SetRenderer(displayMap, currentClassificationLayer, renderer)
  /\ classificationPanel' = [hidden |-> TRUE]
  /\ UNCHANGED <<laterVars, file, uploadStatus, queried, stats, mapLegend,
                 currentClassificationLayer, fieldSelect, applyBtn>>

\* the reset button: nothing without a current layer; otherwise a simple
\* renderer in the color of the layer's position, legend and panel hidden
resetLayerRenderer ==
  /\ PanelShown
  /\ alerted' = ""
  /\ IF currentClassificationLayer = 0
     THEN UNCHANGED <<displayMap, uploadedLayers, mapLegend, classificationPanel>>
     ELSE LET layer    == uploadedLayers[currentClassificationLayer]
              renderer == [type |-> "simple",
                           symbol |-> ResetSymbol(layer.geometryType,
                                                  currentClassificationLayer - 1)]
          IN /\ uploadedLayers' =
                  SetRenderer(uploadedLayers, currentClassificationLayer, renderer)
             /\ displayMap' =
                  SetRenderer(displayMap, currentClassificationLayer, renderer)
             /\ mapLegend' = [mapLegend EXCEPT !.hidden = TRUE]
             /\ classificationPanel' = [hidden |-> TRUE]
  /\ UNCHANGED <<laterVars, file, uploadStatus, queried, stats,
                 currentClassificationLayer, fieldSelect, applyBtn>>

----------------------------------------------------------------------------
(* Inputs of the statistics *)

ValueSamples ==
  << Null, Undefined, Str(""), Str(" "), Str("A"), Integer(5), Str("5"),
     Integer(0), Bool(FALSE), Str("10"), Str("2") >>

\* the values of the example of the specification
ExampleValues == << Str("A"), Str("A"), Str("B"), Null, Str(""), Str("C") >>

\* k values that differ from each other and from every sample
Run(k) == [i \in 1..k |-> Str("v" \o ToString(i))]

\* the features a query returns for these values of the field "f"; an
\* undefined value is a feature without the attribute
QueriedFeatures(values) ==
  [i \in 1..Len(values) |->
     [attributes |-> IF values[i] = Undefined THEN Object(<<>>)
                     ELSE Object(<< [key |-> "f", value |-> values[i]] >>)]]

\* the values of the field are an arbitrary short list, or a shorter one
\* followed by a run of distinct values whose last value may occur again, or
\* the example
InitStatistics ==
  /\ InitPanel
  /\ InitLater
  /\ file = [name |-> <<>>, size |-> 0, fileType |-> "geojson",
             content |-> Null]
  /\ uploadStatus = NoStatus
  /\ displayMap = <<>>
  /\ uploadedLayers = <<>>
  /\ stats = [t |-> "pending"]
  /\ \/ \E n \in 0..MaxLen : \E v \in [1..n -> 1..Len(ValueSamples)] :
          queried = [features |-> QueriedFeatures([i \in 1..n |-> ValueSamples[v[i]]]),
                     fieldName |-> "f", state |-> "pending"]
     \/ \E n \in 0..(MaxLen - 2), k \in 1..MaxRun, again \in 0..1 :
          \E v \in [1..n -> 1..Len(ValueSamples)] :
            queried = [features |-> QueriedFeatures(
                          [i \in 1..n |-> ValueSamples[v[i]]] \o Run(k)
                            \o SubSeq(Run(k), k - again + 1, k)),
                       fieldName |-> "f", state |-> "pending"]
     \/ queried = [features |-> QueriedFeatures(ExampleValues), fieldName |-> "f", state |-> "pending"]

NextStatistics == analyzeFieldValues \/ analyzeFieldValuesQueryFails

SpecStatistics == InitStatistics /\ [][NextStatistics]_vars

----------------------------------------------------------------------------
(* The page after initApp: the static layer, loaded and classified by       *)
(* loadStaticGeoJSONLayer before any handler is installed, and the layer    *)
(* of one upload.                                                           *)

\* the values of the classified property in the twelve features of the
\* static dataset, in ASCII
StaticUsage ==
  << "mosque ", "garden", "garden", "commercial", "commercial", "commercial",
     "commercial", "commercial (club)", "residential", "residential",
     "residential", "commercial (station)" >>

\* the classified field of autoClassifyStaticLayer, in ASCII
UsageField == "usage"

\* the static dataset, reduced to two of its properties: the classified
\* one, and one that is null in every feature
StaticFeatures ==
  [i \in 1..Len(StaticUsage) |->
     Feature(Geometry(Str(T_Polygon), << Ring(i, 1) >>),
             Object(<< [key |-> UsageField, value |-> Str(StaticUsage[i])],
                       [key |-> "city", value |-> Null] >>),
             Undefined)]

StaticTitle == <<"s","t","a","t","i","c">>

\* the layer addGeoJSONToMap makes of the static dataset, the first layer
StaticLayer == FeatureLayer(StaticFeatures, StaticTitle, 0)

StaticStatistics == FieldStatistics(QueryFeatures(StaticLayer), UsageField)

\* the static layer after autoClassifyStaticLayer: fill symbols throughout
autoClassifyStaticLayer ==
  [StaticLayer EXCEPT
     !.renderer = UniqueValueRenderer(StaticStatistics, UsageField, "polygon")]

\* one feature more than the statistics keep values
ManyFeatures == TopValues + 1

\* the collections of the uploaded layer: the single point of type A; points
\* without properties, whose FID takes more values than the statistics
\* keep; a feature without geometry
CollectionSamples ==
  << << Feature(GeometrySamples[1],
                Object(<< [key |-> "type", value |-> Str("A")] >>), Undefined) >>,
     [i \in 1..ManyFeatures |->
        Feature(GeometrySamples[1], Object(<<>>), Undefined)],
     << Feature(Null, Object(<<>>), Undefined) >> >>

LayerNameU == <<"u">>

\* the static layer, classified unless its query failed (a case looked at
\* without an upload only), then at most one uploaded layer; nothing is
\* pending and the panel has not been opened
InitClassification ==
  /\ InitLater
  /\ file = [name |-> <<>>, size |-> 0, fileType |-> "geojson",
             content |-> Null]
  /\ uploadStatus = NoStatus
  /\ queried = NoQuery
  /\ stats = [t |-> "pending"]
  /\ currentClassificationLayer = 1
  /\ fieldSelect = [options |-> <<>>, value |-> ""]
  /\ classificationPanel = [hidden |-> TRUE]
  /\ applyBtn = [disabled |-> FALSE]
  /\ alerted = ""
  /\ \E classified \in BOOLEAN, c \in 0..Len(CollectionSamples) :
       /\ c # 0 => classified
       /\ uploadedLayers =
            << IF classified THEN autoClassifyStaticLayer ELSE StaticLayer >>
            \o (IF c = 0 THEN <<>>
                ELSE << FeatureLayer(CollectionSamples[c], LayerNameU, 1) >>)
       /\ displayMap = uploadedLayers
       /\ mapLegend =
            IF classified
            THEN createMapLegend(StaticStatistics,
                                 generateColors(Len(StaticStatistics.sortedValues)),
                                 UsageField, StaticLayer)
            ELSE [hidden |-> TRUE, title |-> "", items |-> <<>>]

NextClassification ==
  \/ openClassificationPanel
  \/ fieldSelectChange
  \/ closeClassification
  \/ applyFieldClassification
  \/ analyzeFieldValues
  \/ analyzeFieldValuesQueryFails
  \/ applyFieldClassificationNoValues
  \/ applyFieldClassificationFails
  \/ applyFieldClassificationAssigns
  \/ resetLayerRenderer

SpecClassification == InitClassification /\ [][NextClassification]_vars


----------------------------------------------------------------------------
(* The click handler of the view (setupMapClickHandler), the feature panel  *)
(* and the callbacks of setTimeout.  A highlight graphic is named by the    *)
(* number of the click whose handler made it.                               *)

\* one result of view.hitTest: whether it has a graphic with a geometry,
\* whether that graphic has attributes, and its layer: "" for none,
\* "uploaded" for a layer of uploadedLayers, "queryable" for another layer
\* with queryFeatures, "plain" for a layer without
HitResult(hasGeometry, hasAttributes, layer) ==
  [hasGeometry |-> hasGeometry, hasAttributes |-> hasAttributes, layer |-> layer]

\* what view.hitTest answers: it rejects, or it resolves to a list of results
HitTestSamples ==
  << Throw("hitTest"),
     Array(<<>>),
     Array(<< HitResult(TRUE, TRUE, "uploaded") >>),
     Array(<< HitResult(TRUE, TRUE, "plain"), HitResult(TRUE, TRUE, "uploaded") >>),
     Array(<< HitResult(TRUE, FALSE, "queryable") >>),
     Array(<< HitResult(TRUE, TRUE, "plain") >>),
     Array(<< HitResult(TRUE, FALSE, "plain"), HitResult(FALSE, TRUE, "queryable"),
              HitResult(TRUE, TRUE, "") >>) >>

\* what layer.queryFeatures answers: features, no feature, a rejection
QuerySamples == {"features", "empty", "rejected"}

\* result.graphic && result.graphic.geometry && result.layer
IsUsable(result) == result.hasGeometry /\ result.layer # ""

\* the first of these positions in response.results, 0 when there is none:
\* the result at which a loop breaks
FirstResult(passing) ==
  IF passing = {} THEN 0
  ELSE CHOOSE i \in passing : \A j \in passing : i <= j

\* the two loops over response.results: a result of an uploaded layer first,
\* else a result whose layer can be queried or whose graphic has attributes
TargetResult(results) ==
  LET uploaded == FirstResult({i \in 1..Len(results) :
                     /\ IsUsable(results[i])
                     /\ results[i].layer = "uploaded"
                     /\ Len(uploadedLayers) > 0})
      other    == FirstResult({i \in 1..Len(results) :
                     /\ IsUsable(results[i])
                     /\ (results[i].layer \in {"uploaded", "queryable"}
                           \/ results[i].hasAttributes)})
  IN IF uploaded # 0
     THEN [index |-> uploaded, isUploadedLayer |-> TRUE]
     ELSE [index |-> other, isUploadedLayer |-> FALSE]

\* view.graphics.remove(graphic)
RemoveGraphic(graphics, graphic) ==
  SelectSeq(graphics, LAMBDA g : g # graphic)

\* view.graphics after clearHighlight()
ClearedGraphics ==
  IF currentHighlight # 0 THEN RemoveGraphic(viewGraphics, currentHighlight)
  ELSE viewGraphics

\* setTimeout(callback): one more callback of this name is waiting
SetTimeout(name) == [timers EXCEPT ![name] = @ + 1]

\* the handlers at an await without the one at position i
Finished(i) == SubSeq(clicks, 1, i - 1) \o SubSeq(clicks, i + 1, Len(clicks))

\* hideFeaturePanel(): nothing unless the panel has the class show
hideFeaturePanel ==
  IF featurePanel.show
  THEN /\ featurePanel' = [featurePanel EXCEPT !.show = FALSE]
       /\ currentHighlight' = 0
       /\ viewGraphics' = ClearedGraphics
       /\ timers' = SetTimeout("featureHidden")
  ELSE UNCHANGED <<featurePanel, currentHighlight, viewGraphics, timers>>

\* the end of the handler of click id with a feature: the highlight graphic
\* is made and added to the view, showFeatureInfo fills and shows the panel
addHighlight(id) ==
  /\ currentHighlight' = id
  /\ viewGraphics' = Append(viewGraphics, id)
  /\ featurePanel' = [featurePanel EXCEPT !.hidden = FALSE, !.feature = id]
  /\ timers' = SetTimeout("featureShow")

\* what the classification and the upload hold
pageVars == <<file, uploadStatus, displayMap, uploadedLayers, queried, stats,
              panelVars, fieldInfoVars, uploadingVars>>

\* a click on the view: the handler clears the highlight and awaits the hit
\* test
mapClick ==
  /\ clicked < MaxClicks
  /\ clicked' = clicked + 1
  /\ currentHighlight' = 0
  /\ viewGraphics' = ClearedGraphics
  /\ clicks' = Append(clicks, [id |-> clicked + 1, at |-> "hitTest",
                               isUploadedLayer |-> FALSE])
  /\ UNCHANGED <<featurePanel, timers, pageVars>>

\* view.hitTest settles for one of the handlers: the handler ends with the
\* panel hidden (rejection, no result, no target), or goes on to query the
\* layer of its target, or ends with the graphic of its target highlighted
hitTestSettles ==
  /\ \E i \in 1..Len(clicks), r \in 1..Len(HitTestSamples) :
       LET response == HitTestSamples[r]
           target == TargetResult(response.items)
       IN /\ clicks[i].at = "hitTest"
          /\ IF IsThrow(response) THEN hideFeaturePanel /\ clicks' = Finished(i)
             ELSE IF target.index = 0
             THEN hideFeaturePanel /\ clicks' = Finished(i)
             ELSE IF \/ target.isUploadedLayer
                     \/ response.items[target.index].layer \in {"uploaded", "queryable"}
             THEN /\ clicks' = [clicks EXCEPT ![i] =
                                  [id |-> clicks[i].id, at |-> "query",
                                   isUploadedLayer |-> target.isUploadedLayer]]
                  /\ UNCHANGED <<currentHighlight, viewGraphics, featurePanel,
                                 timers>>
             ELSE addHighlight(clicks[i].id) /\ clicks' = Finished(i)
  /\ UNCHANGED <<clicked, pageVars>>

\* layer.queryFeatures settles for one of the handlers: the first feature,
\* or the graphic of the target when the query rejects or, for a layer that
\* was not uploaded, finds nothing, is highlighted; without a feature the
\* panel is hidden
queryFeaturesSettles ==
  /\ \E i \in 1..Len(clicks), answer \in QuerySamples :
       /\ clicks[i].at = "query"
       /\ IF answer = "empty" /\ clicks[i].isUploadedLayer
          THEN hideFeaturePanel
          ELSE addHighlight(clicks[i].id)
       /\ clicks' = Finished(i)
  /\ UNCHANGED <<clicked, pageVars>>

\* the close button of the feature panel
closeFeature ==
  /\ ~featurePanel.hidden
  /\ timers["featureHidden"] < MaxTimers
  /\ featurePanel' = [featurePanel EXCEPT !.show = FALSE]
  /\ currentHighlight' = 0
  /\ viewGraphics' = ClearedGraphics
  /\ timers' = SetTimeout("featureHidden")
  /\ UNCHANGED <<clicks, clicked, pageVars>>

\* the callback of this name runs and adds its class
TimeoutCallback(name) ==
  /\ timers[name] > 0
  /\ timers' = [timers EXCEPT ![name] = @ - 1]
  /\ featurePanel' =
       IF name = "featureShow" THEN [featurePanel EXCEPT !.show = TRUE]
       ELSE IF name = "featureHidden" THEN [featurePanel EXCEPT !.hidden = TRUE]
       ELSE featurePanel
  /\ loadingOverlay' =
       IF name = "overlayHidden" THEN [loadingOverlay EXCEPT !.hidden = TRUE]
       ELSE loadingOverlay
  /\ UNCHANGED <<currentHighlight, viewGraphics, clicks, clicked, file,
                 uploadStatus, displayMap, uploadedLayers, queried, stats,
                 panelVars, fieldInfoVars, processing>>

\* a callback of setTimeout runs
setTimeoutCallback ==
  /\ timers # NoTimers
  /\ \E name \in TimerNames : TimeoutCallback(name)

\* the page after initApp, without an upload
InitClick ==
  /\ InitClassification
  /\ Len(uploadedLayers) = 1
  /\ uploadedLayers[1].renderer.type = "unique-value"

NextClick ==
  \/ mapClick
  \/ hitTestSettles
  \/ queryFeaturesSettles
  \/ closeFeature
  \/ setTimeoutCallback

SpecClick == InitClick /\ [][NextClick]_vars

----------------------------------------------------------------------------
(* The statistics below the field select (#fieldInfo).  SpecClassification  *)
(* leaves #fieldInfo out of what it looks at; here the handlers that write  *)
(* it are modelled with it.                                                 *)

\* what showFieldStatistics writes into .stats-content
FieldInfoContent(statistics) ==
  [t |-> "object",
   totalFeatures |-> statistics.totalFeatures,
   validCount |-> statistics.validCount,
   uniqueCount |-> statistics.uniqueCount,
   topValues |->
     IF statistics.uniqueCount <= 20
     THEN [i \in 1..Len(statistics.sortedValues) |->
             [value |-> statistics.sortedValues[i].key,
              count |-> ToString(statistics.sortedValues[i].value) \o " ("
                          \o toFixed1(PercentageTenths(
                                 statistics.sortedValues[i].value,
                                 statistics.validCount)) \o "%)"]]
     ELSE <<>>,
   warning |-> statistics.uniqueCount > 20]

\* showFieldStatistics(stats): #fieldInfo afterwards
showFieldStatistics(statistics) ==
  IF statistics = Null THEN [fieldInfo EXCEPT !.display = "none"]
  ELSE [display |-> "block", content |-> FieldInfoContent(statistics)]

\* openClassificationPanel(layer), with its hiding of #fieldInfo
openClassificationPanelHidesInfo ==
  /\ \E layer \in 1..Len(uploadedLayers) :
       /\ currentClassificationLayer' = layer
       /\ fieldSelect' = [options |-> FieldOptions(uploadedLayers[layer]),
                          value |-> ""]
  /\ fieldInfo' = [fieldInfo EXCEPT !.display = "none"]
  /\ classificationPanel' = [hidden |-> FALSE]
  /\ alerted' = ""
  /\ UNCHANGED <<clickVars, timers, uploadingVars, fieldQueries, file,
                 uploadStatus, displayMap, uploadedLayers, queried, stats,
                 mapLegend, applyBtn>>

\* the change handler of #fieldSelect up to its await: the user picks
\* another option; with a field and a current layer the statistics of the
\* field are requested, otherwise #fieldInfo is hidden
fieldSelectChangeAnalyzes ==
  /\ PanelShown
  /\ \E i \in 0..Len(fieldSelect.options) :
       LET fieldName == IF i = 0 THEN "" ELSE fieldSelect.options[i] IN
         /\ fieldName # fieldSelect.value
         /\ fieldSelect' = [fieldSelect EXCEPT !.value = fieldName]
         /\ IF fieldName # "" /\ currentClassificationLayer # 0
            THEN /\ Len(fieldQueries) < MaxFieldQueries
                 /\ fieldQueries' = Append(fieldQueries,
                      [features |-> QueryFeatures(
                                      uploadedLayers[currentClassificationLayer]),
                       fieldName |-> fieldName])
                 /\ UNCHANGED fieldInfo
            ELSE /\ fieldInfo' = [fieldInfo EXCEPT !.display = "none"]
                 /\ UNCHANGED fieldQueries
  /\ alerted' = ""
  /\ UNCHANGED <<clickVars, timers, uploadingVars, file, uploadStatus,
                 displayMap, uploadedLayers, queried, stats,
                 currentClassificationLayer, classificationPanel, mapLegend,
                 applyBtn>>

\* the change handler behind its await: one of the awaited calls of
\* analyzeFieldValues returns, null when its query rejected, and
\* showFieldStatistics shows what it returned
fieldSelectChangeShows ==
  /\ \E i \in 1..Len(fieldQueries), rejects \in BOOLEAN :
       LET query == fieldQueries[i]
           statistics == IF rejects THEN Null
                         ELSE FieldStatistics(query.features, query.fieldName)
       IN /\ fieldInfo' = showFieldStatistics(statistics)
          /\ fieldQueries' = SubSeq(fieldQueries, 1, i - 1)
                               \o SubSeq(fieldQueries, i + 1, Len(fieldQueries))
  /\ UNCHANGED <<clickVars, timers, uploadingVars, file, uploadStatus,
                 displayMap, uploadedLayers, queried, stats, panelVars>>

NextFieldInfo ==
  \/ openClassificationPanelHidesInfo
  \/ fieldSelectChangeAnalyzes
  \/ fieldSelectChangeShows
  \/ closeClassification

SpecFieldInfo == InitClick /\ [][NextFieldInfo]_vars

----------------------------------------------------------------------------
(* A session: files are uploaded one after the other while the panel        *)
(* classifies.  handleFileUpload is followed through its await and its      *)
(* finally block.                                                           *)

\* the message of the check of name or size that the file fails, "" when
\* it passes both
ValidationError(f) ==
  IF f.fileType = "shapefile" /\ ~endsWith(toLowerCase(f.name), DotZip)
  THEN "Please select a ZIP file containing shapefile data."
  ELSE IF /\ f.fileType = "geojson"
          /\ ~endsWith(toLowerCase(f.name), DotJson)
          /\ ~endsWith(toLowerCase(f.name), DotGeojson)
  THEN "Please select a .json or .geojson file."
  ELSE IF f.size > MaxFileSize
  THEN "File size exceeds 50MB limit."
  ELSE ""

\* the files of a session: a GeoJSON file with a wrong name, one that is no
\* JSON, a shapefile the portal turns into one layer without features, a
\* shapefile whose request fails
SessionFiles ==
  << [name |-> FileNames[5], size |-> FileSizes[1], fileType |-> "geojson",
      content |-> Null],
     [name |-> FileNames[1], size |-> FileSizes[1], fileType |-> "geojson",
      content |-> Throw("SyntaxError")],
     [name |-> FileNames[3], size |-> FileSizes[1], fileType |-> "shapefile",
      content |-> ResponseSamples[6]],
     [name |-> FileNames[3], size |-> FileSizes[1], fileType |-> "shapefile",
      content |-> ResponseSamples[1]] >>

\* the finally block of handleFileUpload never hides the overlay
HideOverlayLater_never == timers

\* the finally block of handleFileUpload: the overlay gets its class hidden
\* from a callback of setTimeout
HideOverlayLater == SetTimeout("overlayHidden")

\* handleFileUpload(file, fileType) up to its await: a file that fails a
\* check gets its error status and the finally block runs; another file
\* gets the loading status, the overlay is shown and the file is processed
handleFileUploadCall ==
  /\ Len(uploadedLayers) + Len(processing) < MaxLayers
  /\ timers["overlayHidden"] < MaxTimers
  /\ \E n \in 1..Len(SessionFiles) :
       LET f == SessionFiles[n] IN
         IF ValidationError(f) # ""
         THEN /\ uploadStatus' = Status("error", ValidationError(f))
              /\ timers' = HideOverlayLater
              /\ UNCHANGED <<loadingOverlay, processing>>
         ELSE /\ uploadStatus' = Status("loading", "Processing " \o f.fileType \o "...")
              /\ loadingOverlay' = [hidden |-> FALSE]
              /\ processing' = Append(processing, f)
              /\ UNCHANGED timers
  /\ UNCHANGED <<clickVars, fieldInfoVars, file, displayMap, uploadedLayers,
                 queried, stats, panelVars>>

\* handleFileUpload behind its await: the processing of a file ends, its
\* layers are registered, the status is the one it ends with, and the
\* finally block runs
handleFileUploadSettles ==
  /\ processing # <<>>
  /\ processing' = Tail(processing)
  /\ timers' = HideOverlayLater
  /\ \E zoomRejects \in BOOLEAN :
       LET result == Upload(Head(processing), Len(uploadedLayers), zoomRejects) IN
         /\ uploadStatus' = result.status
         /\ displayMap' = displayMap \o result.layers
         /\ uploadedLayers' = uploadedLayers \o result.layers
  /\ UNCHANGED <<clickVars, fieldInfoVars, loadingOverlay, file, queried, stats,
                 panelVars>>

NextSession ==
  \/ handleFileUploadCall
  \/ handleFileUploadSettles
  \/ setTimeoutCallback
  \/ openClassificationPanel
  \/ fieldSelectChange
  \/ closeClassification
  \/ applyFieldClassification
  \/ analyzeFieldValues
  \/ analyzeFieldValuesQueryFails
  \/ applyFieldClassificationNoValues
  \/ applyFieldClassificationFails
  \/ applyFieldClassificationAssigns

\* what the page is sure to do: a file that is processed comes to an end,
\* a callback of setTimeout runs, a query settles, and the call that awaited
\* it goes on
FairSession ==
  /\ WF_vars(handleFileUploadSettles)
  /\ WF_vars(TimeoutCallback("overlayHidden"))
  /\ WF_vars(analyzeFieldValuesQueryFails \/ analyzeFieldValues)
  /\ WF_vars(applyFieldClassificationNoValues \/ applyFieldClassificationFails
               \/ applyFieldClassificationAssigns)

SpecSession == InitClick /\ [][NextSession]_vars /\ FairSession

----------------------------------------------------------------------------
(* One upload, then classifications: the page after initApp, the user       *)
(* having picked a GeoJSON file that holds a FeatureCollection of one Point *)
(* feature with the properties {"type": "A"}                                *)

TypeA == Object(<< [key |-> "type", value |-> Str("A")] >>)

EndToEndFile(declared) ==
  [name |-> FileNames[1], size |-> FileSizes[1], fileType |-> "geojson",
   content |-> Content(1, CRSOf(declared),
                  << Feature(GeometrySamples[1], TypeA, CRSOf(declared)) >>)]

\* the static layer loaded and classified, the file picked and not yet
\* processed
InitEndToEnd ==
  /\ InitLater
  /\ \E declared \in BOOLEAN : file = EndToEndFile(declared)
  /\ uploadStatus = NoStatus
  /\ queried = NoQuery
  /\ stats = [t |-> "pending"]
  /\ currentClassificationLayer = 1
  /\ fieldSelect = [options |-> <<>>, value |-> ""]
  /\ classificationPanel = [hidden |-> TRUE]
  /\ applyBtn = [disabled |-> FALSE]
  /\ alerted = ""
  /\ uploadedLayers = << autoClassifyStaticLayer >>
  /\ displayMap = uploadedLayers
  /\ mapLegend = createMapLegend(StaticStatistics,
                                 generateColors(Len(StaticStatistics.sortedValues)),
                                 UsageField, StaticLayer)

NextEndToEnd ==
  \/ handleFileUpload
  \/ openClassificationPanel
  \/ fieldSelectChange
  \/ closeClassification
  \/ applyFieldClassification
  \/ analyzeFieldValues
  \/ analyzeFieldValuesQueryFails
  \/ applyFieldClassificationNoValues
  \/ applyFieldClassificationFails
  \/ applyFieldClassificationAssigns
  \/ resetLayerRenderer

SpecEndToEnd == InitEndToEnd /\ [][NextEndToEnd]_vars

----------------------------------------------------------------------------
(* Properties of the conversion (SpecGeometries) *)

\* the features handed to addGeoJSONToMap for the file of this behaviour,
\* when its content is a FeatureCollection or a Feature
UploadedFeatures ==
  IF file.content.type = Str("Feature") THEN <<file.content>>
  ELSE file.content.features.items

\* the file passes every check that precedes addGeoJSONToMap
FileIsAccepted ==
  /\ file.name \in {FileNames[1], FileNames[2]}
  /\ file.size <= MaxFileSize
  /\ file.content.t = "object"
  /\ \/ file.content.type = Str("Feature")
     \/ /\ file.content.type = Str("FeatureCollection")
        /\ file.content.features.t = "array"
        /\ Len(file.content.features.items) > 0

Done == uploadStatus # NoStatus

Succeeded == uploadStatus.className = "success"

SameLetter(c, d) ==
  c = d \/ \E i \in 1..26 : {c, d} = {UpperCase[i], LowerCase[i]}

\* the two names are equal when case is ignored
SameName(a, b) ==
  Len(a) = Len(b) /\ \A i \in 1..Len(a) : SameLetter(a[i], b[i])

HasType(feature, name) ==
  /\ feature.geometry.t = "object"
  /\ feature.geometry.type.t = "string"
  /\ SameName(feature.geometry.type.s, name)

\* the mapping table: GeoJSON type name, geometry tag
MappingTable ==
  << <<point, "point">>, <<linestring, "polyline">>,
     <<multilinestring, "polyline">>, <<polygon, "polygon">>,
     <<multipolygon, "polygon">>, <<multipoint, "multipoint">> >>

Recognized(feature) ==
  \E m \in 1..Len(MappingTable) : HasType(feature, MappingTable[m][1])

\* the positions in the layer's source of the graphics made from feature i
GraphicsOf(layer, i) ==
  {j \in 1..Len(layer.source) :
     Get(layer.source[j].attributes, "OBJECTID") = Integer(i)}

\* C1: once a collection has been registered, every feature whose geometry
\* type is, ignoring case, one of the six of the mapping table has exactly one
\* graphic in the layer, tagged as the table says and with spatial reference
\* 4326 whatever CRS was declared; a feature without graphic (converted to
\* null) has none of the six types.
C1_GeometryMapping ==
  Succeeded =>
    \A i \in 1..Len(UploadedFeatures) :
      LET feature == UploadedFeatures[i]
          found   == GraphicsOf(uploadedLayers[1], i)
      IN /\ Cardinality(found) <= 1
         /\ found = {} => ~Recognized(feature)
         /\ \A m \in 1..Len(MappingTable) :
              HasType(feature, MappingTable[m][1]) =>
                /\ Cardinality(found) = 1
                /\ \A j \in found :
                     LET geometry == uploadedLayers[1].source[j].geometry IN
                       /\ geometry.type = MappingTable[m][2]
                       /\ geometry.spatialReference = [wkid |-> 4326]

\* a registered collection that declared a CRS, with an upper-case POINT that
\* was kept and a Circle that was dropped
C1_Witness ==
  /\ Succeeded
  /\ file.content.crs = NamedCRS
  /\ Len(UploadedFeatures) = 2
  /\ UploadedFeatures[1].geometry = Geometry(Str(T_POINT), <<24, 46>>)
  /\ UploadedFeatures[1].crs = NamedCRS
  /\ UploadedFeatures[2].geometry = Geometry(Str(T_Circle), <<1, 2>>)
  /\ Len(uploadedLayers[1].source) = 1
  /\ uploadedLayers[1].source[1].geometry.type = "point"

\* C2: an accepted collection never makes the conversion throw, whatever the
\* geometry types of its features, unknown and missing ones included: the
\* upload succeeds, one layer is registered, and every feature with a type of
\* the mapping table has its graphic in that layer.
C2_UnknownTypeOnlyDropsFeature ==
  (Done /\ FileIsAccepted) =>
    /\ Succeeded
    /\ Len(uploadedLayers) = 1
    /\ \A i \in 1..Len(UploadedFeatures) :
         Recognized(UploadedFeatures[i]) =>
           GraphicsOf(uploadedLayers[1], i) # {}

RECURSIVE RingsBefore(_, _)
\* the number of rings of the parts before part p
RingsBefore(parts, p) ==
  IF p <= 1 THEN 0 ELSE RingsBefore(parts, p - 1) + Len(parts[p - 1])

\* C3: a registered multipolygon is one polygon whose ring list holds, for
\* every part p and every ring r of it, that ring at the place found by
\* counting the rings of the parts before p and then r, and nothing else: the
\* number of rings is the sum of the parts' ring counts.
C3_MultiPolygonFlattening ==
  Succeeded =>
    \A i \in 1..Len(UploadedFeatures) :
      HasType(UploadedFeatures[i], multipolygon) =>
        \A j \in GraphicsOf(uploadedLayers[1], i) :
          LET parts    == UploadedFeatures[i].geometry.coordinates
              geometry == uploadedLayers[1].source[j].geometry
          IN /\ geometry.type = "polygon"
             /\ Len(geometry.rings) = RingsBefore(parts, Len(parts) + 1)
             /\ \A p \in 1..Len(parts) : \A r \in 1..Len(parts[p]) :
                  geometry.rings[RingsBefore(parts, p) + r] = parts[p][r]

\* a registered multipolygon with parts of 2 and 3 rings, converted to a
\* polygon of 5 rings
C3_Witness ==
  /\ Succeeded
  /\ Len(UploadedFeatures) = 1
  /\ HasType(UploadedFeatures[1], multipolygon)
  /\ Len(UploadedFeatures[1].geometry.coordinates) = 2
  /\ Len(UploadedFeatures[1].geometry.coordinates[1]) = 2
  /\ Len(UploadedFeatures[1].geometry.coordinates[2]) = 3
  /\ Len(uploadedLayers[1].source[1].geometry.rings) = 5


----------------------------------------------------------------------------
(* Properties of the field type inference (SpecProperties) *)

\* the values of the property key in the features that have one: neither
\* null nor undefined
PresentValues(features, key) ==
  {i \in 1..Len(features) :
     /\ features[i].properties.t = "object"
     /\ Get(features[i].properties, key) \notin {Null, Undefined}}

\* the value of the property key in feature i, undefined without properties
ValueOf(features, i, key) ==
  IF features[i].properties.t = "object"
  THEN Get(features[i].properties, key) ELSE Undefined

\* the fields of the layer made from property keys: those behind OBJECTID and FID
InferredFields(layer) ==
  {layer.fields[i] : i \in 3..Len(layer.fields)}

\* C4: in a registered layer, a field for which some feature holds a present
\* value that is not a number has type "string", even when other features hold
\* numbers.
C4_NonNumericGivesString ==
  Succeeded =>
    \A field \in InferredFields(uploadedLayers[1]) :
      (\E i \in PresentValues(UploadedFeatures, field.name) :
         ValueOf(UploadedFeatures, i, field.name).t # "number")
      => field.type = "string"

\* C5: in a registered layer, a field whose present values are all numbers,
\* and that has one, is "double" when some value has a fractional part and
\* "integer" otherwise; a field without any present value is "string".
C5_NumericFieldTypes ==
  Succeeded =>
    \A field \in InferredFields(uploadedLayers[1]) :
      LET present == PresentValues(UploadedFeatures, field.name)
          value(i) == ValueOf(UploadedFeatures, i, field.name)
      IN /\ present = {} => field.type = "string"
         /\ (present # {} /\ \A i \in present : value(i).t = "number") =>
              field.type = IF \E i \in present : value(i).tenths # 0
                           THEN "double" ELSE "integer"

\* a layer whose field k is "double" from the values 1, 2.5 and 3
C5_WitnessDouble ==
  /\ Succeeded
  /\ Len(UploadedFeatures) = 3
  /\ ValueOf(UploadedFeatures, 1, "k") = Integer(1)
  /\ ValueOf(UploadedFeatures, 2, "k") = Num(2, 5)
  /\ ValueOf(UploadedFeatures, 3, "k") = Integer(3)
  /\ [name |-> "k", type |-> "double"] \in InferredFields(uploadedLayers[1])

\* s with x put behind its first pos elements
InsertAt(s, pos, x) == SubSeq(s, 1, pos) \o <<x>> \o SubSeq(s, pos + 1, Len(s))

\* the property objects without the key "k": null, {} and { j: "A" }
LackingK == {1, 2, 9}

\* C6: when a collection has been registered with a field k, the same
\* collection with one more feature that lacks k, put at any position, is
\* registered too, with a field k of the same type.
C6_AbsentFieldDoesNotAffect ==
  Succeeded =>
    \A field \in InferredFields(uploadedLayers[1]) :
      field.name = "k" =>
        \A pos \in 0..Len(UploadedFeatures), s \in LackingK :
          LET more == InsertAt(UploadedFeatures, pos,
                               Feature(GeometrySamples[1], PropertySamples[s],
                                       Undefined))
          IN /\ ~AddGeoJSONThrows(more)
             /\ field \in InferredFields(FeatureLayer(more, <<>>, 0))

\* the names of the fields of a layer, in order
FieldNames(layer) == [i \in 1..Len(layer.fields) |-> layer.fields[i].name]

\* C11: in a registered layer no two fields have the same name, also when
\* the properties of the features hold a key named OBJECTID or FID.
C11_FieldNamesUnique ==
  Succeeded =>
    LET names == FieldNames(uploadedLayers[1]) IN
      \A i, j \in 1..Len(names) : i # j => names[i] # names[j]

----------------------------------------------------------------------------
(* Properties of the statistics (SpecStatistics) *)

\* the value of the queried field in feature i
QueriedValue(i) == Get(queried.features[i].attributes, queried.fieldName)

\* not null, not undefined and not exactly the empty string
CountsAsValid(value) ==
  /\ value.t \notin {"null", "undefined"}
  /\ ~(value.t = "string" /\ Len(value.s) = 0)

ValidRows == {i \in 1..Len(queried.features) : CountsAsValid(QueriedValue(i))}

\* the distinct string representations of the valid values
Buckets == {String(QueriedValue(i)) : i \in ValidRows}

\* the number of valid values in bucket b
BucketSize(b) == Cardinality({i \in ValidRows : String(QueriedValue(i)) = b})

\* the first row whose value is in bucket b
FirstOccurrence(b) ==
  CHOOSE i \in ValidRows :
    /\ String(QueriedValue(i)) = b
    /\ \A j \in ValidRows : String(QueriedValue(j)) = b => i <= j

HasStats == stats.t = "object"

\* C7: when the query resolves with a non-empty feature list, the result is
\* not null, totalFeatures is the number of features, validCount the number of
\* values that are not null, undefined or "", and uniqueCount the number of
\* distinct string representations of the valid values.
C7_Counts ==
  (queried.state = "resolved" /\ Len(queried.features) > 0) =>
    /\ HasStats
    /\ stats.totalFeatures = Len(queried.features)
    /\ stats.validCount = Cardinality(ValidRows)
    /\ stats.uniqueCount = Cardinality(Buckets)

\* statistics of the values " ", 0 and false: all valid, 3 buckets
C7_WitnessOddValues ==
  /\ HasStats
  /\ Len(queried.features) = 3
  /\ {QueriedValue(i) : i \in 1..3} = {Str(" "), Integer(0), Bool(FALSE)}
  /\ stats.validCount = 3
  /\ stats.uniqueCount = 3

\* C8: sortedValues is ordered by count descending and, for equal counts, by
\* the first occurrence of the bucket's value in the feature list.
C8_TieOrderIsFirstOccurrence ==
  HasStats =>
    \A a, b \in 1..Len(stats.sortedValues) :
      a < b =>
        LET x == stats.sortedValues[a]
            y == stats.sortedValues[b]
        IN \/ x.value > y.value
           \/ /\ x.value = y.value
              /\ FirstOccurrence(x.key) < FirstOccurrence(y.key)

\* C9: sortedValues has min(20, uniqueCount) entries, one per bucket and with
\* the bucket's size, in descending order of size, and no bucket left out is
\* larger than one kept; uniqueCount is the number of all buckets.
C9_TopTwenty ==
  HasStats =>
    LET sorted == stats.sortedValues
        kept   == {sorted[a].key : a \in 1..Len(sorted)}
    IN /\ Len(sorted) <= 20
       /\ Len(sorted) = IF Cardinality(Buckets) < 20 THEN Cardinality(Buckets) ELSE 20
       /\ stats.uniqueCount = Cardinality(Buckets)
       /\ Cardinality(kept) = Len(sorted)
       /\ kept \subseteq Buckets
       /\ \A a \in 1..Len(sorted) : sorted[a].value = BucketSize(sorted[a].key)
       /\ \A a, b \in 1..Len(sorted) : a < b => sorted[a].value >= sorted[b].value
       /\ \A a \in 1..Len(sorted) : \A b \in Buckets \ kept :
            BucketSize(b) <= sorted[a].value

\* statistics of 25 values that occur once each: 25 buckets, 20 entries
C9_WitnessTruncated ==
  /\ HasStats
  /\ stats.totalFeatures = 25
  /\ stats.validCount = 25
  /\ stats.uniqueCount = 25
  /\ Len(stats.sortedValues) = 20

RECURSIVE SumOfCounts(_)
SumOfCounts(sorted) ==
  IF Len(sorted) = 0 THEN 0 ELSE Head(sorted).value + SumOfCounts(Tail(sorted))

\* C10: the counts of sortedValues add up to at most validCount, and to
\* exactly validCount if and only if uniqueCount <= 20.
C10_SumOfCounts ==
  HasStats =>
    /\ SumOfCounts(stats.sortedValues) <= stats.validCount
    /\ (SumOfCounts(stats.sortedValues) = stats.validCount)
         <=> (stats.uniqueCount <= 20)

\* more than 20 buckets, one of them with two values: the sum falls short
C10_WitnessShort ==
  /\ HasStats
  /\ stats.uniqueCount > 20
  /\ stats.sortedValues[1].value = 2
  /\ SumOfCounts(stats.sortedValues) < stats.validCount

----------------------------------------------------------------------------
(* Properties of the classification (SpecClassification) *)

\* a step in which applyFieldClassification comes back from its await and
\* ends without an alert
ApplySucceeds == Returned /\ queried' = NoQuery /\ alerted' = ""

\* a step in which applyFieldClassification ends with the alert of its
\* early return or of its missing values
ApplyAborts == alerted' \in {PleaseSelectField, NoValidValues}

\* a step in which applyFieldClassification ends in its catch block
ApplyFails == alerted' = ApplyError

IsUniqueValue(layer) == layer.renderer.type = "unique-value"

IsSimple(layer) == layer.renderer.type = "simple"

\* the red, green and blue of the symbol of a rule
RuleColor(rule) == SubSeq(rule.symbol.color, 1, 3)

\* C12: when a classification is applied, the rule list of the new renderer
\* has one rule per entry of sortedValues, in order: rule i (from 0) has the
\* value of entry i, the palette colour i mod 20 and the label
\* "value (count)"; the list is thereby a function of the statistics.
C12_RulesFollowPalette ==
  [][ApplySucceeds =>
       LET rules == uploadedLayers'[currentClassificationLayer]
                      .renderer.uniqueValueInfos
           sortedValues == stats.sortedValues
       IN /\ Len(rules) = Len(sortedValues)
          /\ \A i \in 1..Len(rules) :
               /\ rules[i].value = sortedValues[i].key
               /\ RuleColor(rules[i]) = Palette[((i - 1) % 20) + 1]
               /\ rules[i].label = sortedValues[i].key \o " ("
                     \o ToString(sortedValues[i].value) \o ")"]_vars

\* the uploaded layer classified into twenty rules, the last one in the
\* last colour of the palette
C12_WitnessTwentyRules ==
  /\ Len(uploadedLayers) = 2
  /\ IsUniqueValue(uploadedLayers[2])
  /\ Len(uploadedLayers[2].renderer.uniqueValueInfos) = 20
  /\ RuleColor(uploadedLayers[2].renderer.uniqueValueInfos[20]) = Palette[20]
  /\ uploadedLayers[2].renderer.uniqueValueInfos[20].label = "20 (1)"

\* p tenths of a percent is count / validCount * 100 rounded to one decimal
IsRounded(p, count, validCount) ==
  /\ 2000 * count - validCount < 2 * validCount * p
  /\ 2 * validCount * p <= 2000 * count + validCount

IsCompleteFor(renderer, layer) ==
  LET statistics == FieldStatistics(QueryFeatures(layer), renderer.field)
      rules == renderer.uniqueValueInfos
  IN /\ statistics # Null
     /\ Len(rules) = Len(statistics.sortedValues)
     /\ Len(rules) > 0
     /\ \A i \in 1..Len(rules) :
          /\ rules[i].value = statistics.sortedValues[i].key
          /\ rules[i].label = rules[i].value \o " ("
                \o ToString(statistics.sortedValues[i].value) \o ")"

\* Unclassified, or Classified(field) with a complete rule list
IsUnclassifiedOrClassified(renderer, layers) ==
  \/ renderer.type = "simple"
  \/ /\ renderer.type = "unique-value"
     /\ \E l \in 1..Len(layers) : IsCompleteFor(renderer, layers[l])

\* C14: every layer is Unclassified (simple renderer) or Classified(field)
\* (a unique-value renderer whose rules are the complete list for that one
\* field), initially and after every change of its renderer; a step changes
\* the renderer of a layer only by a successful apply
\* on the current layer, which makes it Classified with a complete list at
\* once, or by a reset of the current layer, which makes a Classified layer
\* Unclassified.
C14_RendererStates ==
  /\ \A i \in 1..Len(uploadedLayers) :
       IsUnclassifiedOrClassified(uploadedLayers[i].renderer, uploadedLayers)
  /\ [][/\ Len(uploadedLayers') = Len(uploadedLayers)
        /\ \A i \in 1..Len(uploadedLayers) :
          LET old == uploadedLayers[i].renderer
              new == uploadedLayers'[i].renderer
          IN old # new =>
               /\ i = currentClassificationLayer
               /\ IsUnclassifiedOrClassified(new, uploadedLayers)
               /\ \/ new.type = "unique-value" /\ ApplySucceeds
                  \/ /\ new.type = "simple" /\ old.type = "unique-value"
                     /\ resetLayerRenderer]_vars

\* the uploaded layer, classified by type, is classified anew by FID
C14_WitnessReclassified ==
  /\ Len(uploadedLayers) = 2
  /\ IsUniqueValue(uploadedLayers[2])
  /\ uploadedLayers[2].renderer.field = "type"
  /\ Returned /\ stats # Null
  /\ queried.fieldName = "FID"
  /\ currentClassificationLayer = 2

\* C15: a reset of a classified layer leaves that layer with a simple
\* renderer, which holds no per-value rules, and leaves the legend hidden.
C15_ResetAfterClassify ==
  [][(/\ resetLayerRenderer
      /\ currentClassificationLayer # 0
      /\ IsUniqueValue(uploadedLayers[currentClassificationLayer]))
     => LET renderer == uploadedLayers'[currentClassificationLayer].renderer
        IN /\ renderer.type = "simple"
           /\ DOMAIN renderer = {"type", "symbol"}
           /\ DOMAIN renderer.symbol \subseteq
                {"type", "color", "size", "width", "outline"}
           /\ mapLegend'.hidden]_vars

\* the uploaded layer after it was classified by type and reset: the legend
\* still holds the entry of type but is hidden
C15_WitnessReset ==
  /\ Len(uploadedLayers) = 2
  /\ currentClassificationLayer = 2
  /\ IsSimple(uploadedLayers[2])
  /\ IsUniqueValue(uploadedLayers[1])
  /\ uploadedLayers[1].renderer.field = UsageField
  /\ classificationPanel.hidden
  /\ mapLegend.hidden
  /\ mapLegend.title = "type"
  /\ queried = NoQuery

\* the step in which applyFieldClassification is called
ApplyIsCalled == applyFieldClassification

\* the step in which applyFieldClassification goes on behind its await
ApplyReturns == Returned /\ queried' = NoQuery

\* the statistics are null or count no valid value
NullOrNoValidValue(statistics) ==
  IF statistics.t = "null" THEN TRUE ELSE statistics.validCount = 0

\* what an aborted apply leaves alone
ApplyMutatesNothing ==
  UNCHANGED <<uploadedLayers, displayMap, mapLegend, currentClassificationLayer>>

\* C16: a call of applyFieldClassification without a selected field or
\* without a current layer alerts and changes no renderer, nor the legend,
\* nor currentClassificationLayer; so does its continuation when the
\* statistics are null or have no valid value.
C16_AbortMutatesNothing ==
  [][/\ (ApplyIsCalled
         /\ (fieldSelect.value = "" \/ currentClassificationLayer = 0))
        => (alerted' = PleaseSelectField /\ ApplyMutatesNothing
            /\ UNCHANGED <<queried, stats, applyBtn>>)
     /\ (ApplyReturns /\ NullOrNoValidValue(stats))
        => (alerted' = NoValidValues /\ ApplyMutatesNothing
            /\ ~applyBtn'.disabled)]_vars

\* the static layer after an apply on its field city, null in every
\* feature: the alert is up, renderer and legend are those of usage
C16_WitnessNoValidValues ==
  /\ alerted = NoValidValues
  /\ fieldSelect.value = "city"
  /\ currentClassificationLayer = 1
  /\ IsUniqueValue(uploadedLayers[1])
  /\ uploadedLayers[1].renderer.field = UsageField
  /\ ~mapLegend.hidden
  /\ mapLegend.title = UsageField

\* C17: the step in which applyFieldClassification ends in its catch block
\* changes the renderer of no layer.
C17_FailureLeavesRenderer ==
  [][ApplyFails => UNCHANGED <<uploadedLayers, displayMap>>]_vars

\* the panel was closed during the await of an apply on the static layer:
\* the error alert is up and the layer has its renderer of usage
C17_WitnessFailed ==
  /\ alerted = ApplyError
  /\ currentClassificationLayer = 0
  /\ ~applyBtn.disabled
  /\ IsUniqueValue(uploadedLayers[1])
  /\ uploadedLayers[1].renderer.field = UsageField
  /\ fieldSelect.value = "FID"

\* the rules of a renderer were counted on the features of this layer
IsDerivedFrom(renderer, layer) ==
  LET statistics == FieldStatistics(QueryFeatures(layer), renderer.field)
  IN IF statistics = Null THEN FALSE
     ELSE /\ Len(renderer.uniqueValueInfos) = Len(statistics.sortedValues)
          /\ \A i \in 1..Len(statistics.sortedValues) :
               /\ renderer.uniqueValueInfos[i].value = statistics.sortedValues[i].key
               /\ renderer.uniqueValueInfos[i].label
                    = RuleLabel(statistics.sortedValues[i].key,
                                statistics.sortedValues[i].value)

\* C24: the renderer applyFieldClassification assigns goes to the layer whose
\* features were queried for its statistics: the layer that receives it is
\* the one the query was made on, and field, values and counts of the rules
\* are those of that layer, also when openClassificationPanel was called for
\* another layer while the query was pending.
C24_RendererGoesToQueriedLayer ==
  [][ApplySucceeds =>
       LET layer == uploadedLayers'[currentClassificationLayer] IN
         /\ queried.features = QueryFeatures(layer)
         /\ IsDerivedFrom(layer.renderer, layer)]_vars

\* a reset has hidden the panel while an apply was awaiting its statistics:
\* the button is disabled since the call, so the call precedes the reset, and
\* nothing has shown the panel again
ResetDuringApply ==
  /\ classificationPanel.hidden
  /\ applyBtn.disabled
  /\ currentClassificationLayer # 0
  /\ IsSimple(uploadedLayers[currentClassificationLayer])
  /\ mapLegend.hidden

\* C26: after resetLayerRenderer has made a layer simple while an apply
\* issued before it is still awaiting its statistics, the steps that follow
\* (the query settling, the apply going on) leave the layer simple and the
\* legend hidden.
C26_ResetIsNotUndone ==
  [][(ResetDuringApply /\ currentClassificationLayer' = currentClassificationLayer)
       => /\ IsSimple(uploadedLayers'[currentClassificationLayer])
          /\ mapLegend'.hidden]_vars

\* the panel was closed while an apply is awaiting, and is not reopened in
\* this step
ClosedDuringApply ==
  /\ applyBtn.disabled
  /\ currentClassificationLayer = 0
  /\ currentClassificationLayer' = 0

\* C27: when the panel is closed while applyFieldClassification awaits its
\* statistics and no panel is reopened, no step up to and including the
\* return of the apply changes the renderer of a layer, the legend stays
\* hidden, and the return enables the apply button again.
C27_ClosedApplyChangesNothing ==
  [][ClosedDuringApply =>
       /\ UNCHANGED <<uploadedLayers, displayMap>>
       /\ mapLegend.hidden /\ mapLegend'.hidden
       /\ ApplyReturns => ~applyBtn'.disabled]_vars

\* the apply on the field type of the uploaded layer has ended in its catch
\* block after the panel was closed: the layer is as the upload made it
C27_WitnessClosedDuringAwait ==
  /\ alerted = ApplyError
  /\ currentClassificationLayer = 0
  /\ fieldSelect.value = "type"
  /\ ~applyBtn.disabled
  /\ classificationPanel.hidden
  /\ mapLegend.hidden
  /\ Len(uploadedLayers) = 2
  /\ IsSimple(uploadedLayers[2])

\* C30: the rules of one classification, at most twenty, have pairwise
\* different colours.
C30_RuleColoursDiffer ==
  [][ApplySucceeds =>
       LET rules == uploadedLayers'[currentClassificationLayer]
                      .renderer.uniqueValueInfos
       IN /\ Len(rules) <= Len(Palette)
          /\ \A i, j \in 1..Len(rules) :
               i # j => RuleColor(rules[i]) # RuleColor(rules[j])]_vars

----------------------------------------------------------------------------
(* Properties of the upload (SpecUpload) *)

Failed == uploadStatus.className = "error"

\* C18: an upload that ends with an error status has registered no layer:
\* the map and uploadedLayers are as empty as they were before it.
C18_FailedUploadRegistersNothing ==
  (Done /\ Failed) => (displayMap = <<>> /\ uploadedLayers = <<>>)

\* the name ends with the suffix when case is ignored
EndsWithIgnoringCase(name, suffix) ==
  /\ Len(name) >= Len(suffix)
  /\ SameName(SubSeq(name, Len(name) - Len(suffix) + 1, Len(name)), suffix)

\* at most 50 MB, and the extension of the drop zone
PassesValidation ==
  /\ file.size <= 52428800
  /\ \/ /\ file.fileType = "shapefile"
        /\ EndsWithIgnoringCase(file.name, <<".","z","i","p">>)
     \/ /\ file.fileType = "geojson"
        /\ \/ EndsWithIgnoringCase(file.name, <<".","j","s","o","n">>)
           \/ EndsWithIgnoringCase(file.name, <<".","g","e","o","j","s","o","n">>)

\* the messages of the checks of name and size
ValidationMessages ==
  { "Please select a ZIP file containing shapefile data.",
    "Please select a .json or .geojson file.",
    "File size exceeds 50MB limit." }

\* C19: after an upload, the file was handed to parsing or conversion (the
\* status is not one of the validation messages) only if it is at most 50 MB
\* and its name has the extension of its drop zone, case ignored; every
\* other file has an error status with a validation message and no layer is
\* registered.
C19_OnlyValidFilesAreProcessed ==
  Done =>
    IF PassesValidation
    THEN uploadStatus.message \notin ValidationMessages
    ELSE /\ Failed
         /\ uploadStatus.message \in ValidationMessages
         /\ uploadedLayers = <<>> /\ displayMap = <<>>

\* a shapefile of exactly 50 MB named D.ZIP has been converted and registered
C19_WitnessLargestZip ==
  /\ Done /\ Succeeded
  /\ file.fileType = "shapefile"
  /\ file.size = 52428800
  /\ file.name = FileNames[4]
  /\ Len(uploadedLayers) = 2

\* the parsed content is a FeatureCollection with a non-empty features list
IsNonEmptyCollection(content) ==
  /\ content.t = "object"
  /\ content.type = Str("FeatureCollection")
  /\ content.features.t = "array"
  /\ Len(content.features.items) > 0

IsSingleFeature(content) ==
  content.t = "object" /\ content.type = Str("Feature")

\* C20: a GeoJSON file that passes validation registers a layer only if its
\* content is a FeatureCollection with a non-empty features list or a
\* Feature; the layer of a Feature is made of exactly that feature; every
\* other content (unreadable, not JSON, null, type missing or different,
\* features empty or missing) ends with an error status and no layer.
C20_OnlyCollectionsAndFeatures ==
  (Done /\ file.fileType = "geojson" /\ PassesValidation) =>
    /\ uploadedLayers # <<>> =>
         (IsNonEmptyCollection(file.content) \/ IsSingleFeature(file.content))
    /\ (uploadedLayers # <<>> /\ IsSingleFeature(file.content)) =>
         /\ Len(uploadedLayers) = 1
         /\ uploadedLayers[1].source
              = Graphics(<< [file.content EXCEPT !.crs = Undefined] >>)
    /\ ~(IsNonEmptyCollection(file.content) \/ IsSingleFeature(file.content))
         => (Failed /\ uploadedLayers = <<>> /\ displayMap = <<>>)

\* a bare Feature has been registered as a layer of one graphic
C20_WitnessWrappedFeature ==
  /\ Done /\ Succeeded
  /\ file.fileType = "geojson"
  /\ IsSingleFeature(file.content)
  /\ Len(uploadedLayers) = 1
  /\ Len(uploadedLayers[1].source) = 1

\* the red, green and blue of the symbol of a simple renderer
SymbolColor(symbol) == SubSeq(symbol.color, 1, 3)

\* C28: for every layer an upload has registered, the colour
\* resetLayerRenderer would give it (from its position in uploadedLayers) is
\* the colour createCustomRenderer gave it at creation; the second and later
\* layers of one shapefile are among these layers.
C28_ResetRestoresCreationColour ==
  \A i \in 1..Len(uploadedLayers) :
    LET layer == uploadedLayers[i] IN
      SymbolColor(ResetSymbol(layer.geometryType, i - 1))
        = SymbolColor(layer.renderer.symbol)

----------------------------------------------------------------------------
(* Properties of the layer of a GeoJSON upload (SpecGeometries) *)

\* C29: in a layer made by addGeoJSONToMap, the geometry of every graphic
\* kept in the layer carries the type the layer declares as its
\* geometryType, whatever types the collection mixes.
C29_GraphicsHaveLayerType ==
  \A l \in 1..Len(uploadedLayers) :
    \A g \in 1..Len(uploadedLayers[l].source) :
      uploadedLayers[l].source[g].geometry.type = uploadedLayers[l].geometryType

----------------------------------------------------------------------------
(* Properties of the highlight (SpecClick) *)

\* C25: at most one highlight graphic is on the view, and a graphic on the
\* view is the one currentHighlight refers to, in every state the click
\* handlers reach, whatever they are awaiting.
C25_OneHighlight ==
  /\ Len(viewGraphics) <= 1
  /\ \A i \in 1..Len(viewGraphics) : viewGraphics[i] = currentHighlight

----------------------------------------------------------------------------
(* Properties of the statistics below the field select (SpecFieldInfo) *)

\* C23: once every statistics request of the field select has returned,
\* the statistics #fieldInfo shows, if it shows any, are those of the field
\* that is selected now on the current layer: the result of a superseded
\* request was overwritten by the later one, in whatever order the queries
\* resolved.
C23_LatestRequestWins ==
  (/\ fieldQueries = <<>>
   /\ fieldSelect.value # ""
   /\ currentClassificationLayer # 0
   /\ fieldInfo.display = "block")
  => fieldInfo.content
       = FieldInfoContent(FieldStatistics(
           QueryFeatures(uploadedLayers[currentClassificationLayer]),
           fieldSelect.value))

----------------------------------------------------------------------------
(* Properties of a session (SpecSession) *)

\* the portal answered with a feature collection of at least one layer
IsValidUpload(f) ==
  /\ f.fileType = "shapefile"
  /\ ~IsThrow(f.content)
  /\ ~Truthy(f.content.error)
  /\ Len(f.content.featureCollection.layers) > 0

\* the step in which the processing of a valid file ends
ValidUploadEnds ==
  /\ processing # <<>>
  /\ processing' = Tail(processing)
  /\ IsValidUpload(Head(processing))

\* the step in which an apply goes on with statistics that hold a value, a
\* layer being current
ValidApplyReturns ==
  /\ ApplyReturns
  /\ ~NothingToClassify(stats)
  /\ currentClassificationLayer # 0

\* C22: no failure is fatal.  Whenever an upload has ended with an error
\* status, the loading overlay is hidden later on; whenever the apply button
\* is disabled, it is enabled later on, whether the statistics query failed,
\* found nothing, or the continuation threw; and whatever happened before,
\* the processing of a valid file ends with the success status and a new
\* layer, and an apply that comes back with values for a current layer
\* classifies it and shows the legend.
C22_NoFailureIsFatal ==
  /\ (uploadStatus.className = "error") ~> loadingOverlay.hidden
  /\ applyBtn.disabled ~> ~applyBtn.disabled
  /\ [][/\ ValidUploadEnds =>
             /\ uploadStatus'.className = "success"
             /\ Len(uploadedLayers') > Len(uploadedLayers)
        /\ ValidApplyReturns =>
             /\ IsUniqueValue(uploadedLayers'[currentClassificationLayer])
             /\ ~mapLegend'.hidden
             /\ ~applyBtn'.disabled
             /\ alerted' = ""]_vars

\* a valid file has been registered after an upload that failed (the one
\* layer a session takes is registered, and two uploads have ended since a
\* callback hid the overlay), and the static layer has been classified by
\* FID after an apply that failed
C22_WitnessRecovered ==
  /\ uploadStatus.className = "success"
  /\ Len(uploadedLayers) = 2
  /\ timers["overlayHidden"] = 2
  /\ processing = <<>>
  /\ ~applyBtn.disabled
  /\ uploadedLayers[1].renderer.field = "FID"
  /\ ~mapLegend.hidden

----------------------------------------------------------------------------
(* Properties of one upload followed by classifications (SpecEndToEnd) *)

\* the layer has a field of this name and type
HasField(layer, name, type) ==
  \E i \in 1..Len(layer.fields) :
    layer.fields[i].name = name /\ layer.fields[i].type = type

\* the layer of the upload: one feature, and OBJECTID, FID and type among
\* its fields
UploadedAsClaimed ==
  Len(uploadedLayers) > 1 =>
    /\ Len(uploadedLayers) = 2
    /\ Len(uploadedLayers[2].source) = 1
    /\ HasField(uploadedLayers[2], "OBJECTID", "oid")
    /\ \E type \in {"oid", "integer", "double", "string"} :
         HasField(uploadedLayers[2], "FID", type)
    /\ HasField(uploadedLayers[2], "type", "string")

\* the step in which the uploaded layer is classified on type
ClassifiesOnType ==
  /\ ApplySucceeds
  /\ currentClassificationLayer = 2
  /\ queried.fieldName = "type"

=============================================================================
